---- MODULE Spec2Model ----
(***************************************************************************)
(* Sea Ice Preservation Simulator (IceShieldSolution).                     *)
(*                                                                         *)
(* The parts of the program that are modelled:                             *)
(*   - utils/calculations.py: the freezing point and the grid             *)
(*     classification estimate_newly_frozen_area (SpecGrid), the scalar    *)
(*     functions of the dilution and of desalination (SpecCalc);           *)
(*   - utils/database.py: the scenario/result store and its operations     *)
(*     (Spec, SpecClock, SpecResults), the detailed_results payloads       *)
(*     (SpecPayload), init_db run in sequence (SpecSeed) and by two        *)
(*     processes at once (SpecRace);                                       *)
(*   - pages/*.py: the runs of the page scripts over the store, with the   *)
(*     geoengineering comparison of utils/visualizations.py (SpecPages);   *)
(*   - the synthetic field generators of the Ice Expansion Simulation      *)
(*     page and of data/arctic_data.py (SpecField), and the runs of that   *)
(*     page over its cached arrays (SpecIce).                              *)
(*                                                                         *)
(* Units.  Floats are exact decimals scaled to integers: a salinity is in  *)
(* tenths of a PSU (320 is 32.0 PSU, the sliders step by 0.1), a           *)
(* temperature in 1e-4 degrees Celsius, so that -0.054 * S is the integer  *)
(* -54 * S.  A float is a record [nan, v]: IEEE NaN compares false with    *)
(* everything.                                                             *)
(***************************************************************************)
EXTENDS Integers, Sequences, FiniteSets, TLC

VARIABLES
    \* ---- utils/calculations.py: one call of estimate_newly_frozen_area
    temperature_data,     \* argument: 2D array of floats (rows of cells)
    salinity_data,        \* argument: 2D array of floats
    initial_salinity,     \* argument
    target_salinity,      \* argument
    frozen_result,        \* the returned dict, NoResult before the call returns
    \* ---- utils/database.py: the store behind Session()
    engine,               \* how the database named by DATABASE_URL issues ids
    simulation_scenarios, \* table simulation_scenarios: a set of rows
    simulation_results,   \* table simulation_results: a set of rows
    scenario_seq,         \* last id issued for simulation_scenarios
    result_seq,           \* last id issued for simulation_results
    now,                  \* datetime.datetime.utcnow()
    ret,                  \* what the last store operation returned (or raised)
    reachable,            \* whether the database named by DATABASE_URL answers
    geoengineering_approaches, \* table geoengineering_approaches: a set of rows
    \* ---- pages/*.py: one browser session of the Streamlit application
    session_state,        \* st.session_state: a record of the keys it holds
    page,                 \* what the last run of a page script did
    \* ---- utils/calculations.py: one call of the scalar functions
    area_km2,             \* argument
    depth_m,              \* argument
    calc_result,          \* the returned values, NoResult before the call returns
    \* ---- the synthetic field generators: one cell of one call
    field,                \* the arguments, the cell and its values; NoResult before
    \* ---- utils/database.py: the processes that run init_db
    init_db_calls,        \* per process: where it is in init_db and what it counted
    \* ---- pages/03_Ice_Expansion_Simulation.py: the runs of the script
    cache_data,           \* st.cache_data of generate_arctic_data: key -> value
    simulation            \* the widgets and the arrays of the last run

gridVars == <<temperature_data, salinity_data, initial_salinity, target_salinity,
              frozen_result>>
storeVars == <<engine, simulation_scenarios, simulation_results, scenario_seq,
               result_seq, now, ret>>
pageVars == <<session_state, page>>
geoVars == <<reachable, geoengineering_approaches>>
calcVars == <<area_km2, depth_m, calc_result>>
runVars == <<init_db_calls, cache_data, simulation>>
appVars == <<session_state, page, reachable, geoengineering_approaches, area_km2,
             depth_m, calc_result, field, init_db_calls, cache_data, simulation>>
vars == <<temperature_data, salinity_data, initial_salinity, target_salinity,
          frozen_result, engine, simulation_scenarios, simulation_results,
          scenario_seq, result_seq, now, ret, reachable, geoengineering_approaches,
          session_state, page, area_km2, depth_m, calc_result, field,
          init_db_calls, cache_data, simulation>>

(***************************************************************************)
(* Floats                                                                  *)
(***************************************************************************)
Float(x) == [nan |-> FALSE, v |-> x]
NaN == [nan |-> TRUE, v |-> 0]

float_lt(a, b) == ~a.nan /\ ~b.nan /\ a.v < b.v
float_ge(a, b) == ~a.nan /\ ~b.nan /\ a.v >= b.v

(***************************************************************************)
(* Bounds of the grid inputs                                               *)
(***************************************************************************)
MaxCells == 4

\* salinities (tenths of a PSU) the two set-points are drawn from
SalinityValues == {300, 320}

\* cell temperatures (1e-4 degrees C): below both freezing points, on
\* fp(32.0) = -1.7280, between the two, on fp(30.0) = -1.6200, above both, NaN
TemperatureValues ==
    {Float(-20000), Float(-17280), Float(-17000), Float(-16200), Float(0), NaN}

Shapes == {s \in (1..MaxCells) \X (1..MaxCells) : s[1] * s[2] <= MaxCells}

Grids(values) == UNION {[1..s[1] -> [1..s[2] -> values]] : s \in Shapes}

\* numpy's ndarray.shape of a 2D array
Shape(a) == <<Len(a), Len(a[1])>>

Cells(a) == {c \in (1..Len(a)) \X (1..Len(a[1])) : TRUE}

Uniform(shape, x) == [i \in 1..shape[1] |-> [j \in 1..shape[2] |-> x]]

(***************************************************************************)
(* utils/calculations.py                                                   *)
(***************************************************************************)
FreezingCoefficient == -54

\* a slip of line 20: the sign of the coefficient lost
calculate_freezing_point_Positive(salinity) == Float(-FreezingCoefficient * salinity)

\* calculate_freezing_point: -0.054 * salinity
calculate_freezing_point(salinity) == Float(FreezingCoefficient * salinity)

\* numpy: array < scalar, element-wise
ArrayLt(a, x) == [i \in 1..Len(a) |-> [j \in 1..Len(a[1]) |-> float_lt(a[i][j], x)]]
\* numpy: array >= scalar, element-wise
ArrayGe(a, x) == [i \in 1..Len(a) |-> [j \in 1..Len(a[1]) |-> float_ge(a[i][j], x)]]
\* numpy: a & b on boolean arrays
ArrayAnd(a, b) == [i \in 1..Len(a) |-> [j \in 1..Len(a[1]) |-> a[i][j] /\ b[i][j]]]
\* numpy: a | b on boolean arrays
ArrayOr(a, b) == [i \in 1..Len(a) |-> [j \in 1..Len(a[1]) |-> a[i][j] \/ b[i][j]]]
\* numpy: array <= scalar, element-wise
ArrayLe(a, x) ==
    [i \in 1..Len(a) |-> [j \in 1..Len(a[1]) |-> float_lt(a[i][j], x) \/ a[i][j] = x]]

\* a slip of np.sum: the array's size
NpSum_Size(a) == Cardinality(Cells(a))

\* numpy: np.sum of a boolean array counts its true cells
NpSum(a) == Cardinality({c \in Cells(a) : a[c[1]][c[2]]})

\* a slip of line 127: <= for <
CurrentlyFrozen_Le(temperature, initial_freezing_point) ==
    ArrayLe(temperature, initial_freezing_point)

\* a slip of line 130: the lower bound of the interval left out
NewlyFrozen_NoLowerBound(temperature, initial_freezing_point, target_freezing_point) ==
    ArrayLt(temperature, target_freezing_point)

\* a slip of line 130: "between the two freezing points" taken in either order
NewlyFrozen_Unordered(temperature, initial_freezing_point, target_freezing_point) ==
    ArrayOr(ArrayAnd(ArrayGe(temperature, initial_freezing_point),
                     ArrayLt(temperature, target_freezing_point)),
            ArrayAnd(ArrayGe(temperature, target_freezing_point),
                     ArrayLt(temperature, initial_freezing_point)))

\* a slip of line 133: & for |
TotalFrozen_And(currently_frozen, newly_frozen) == ArrayAnd(currently_frozen, newly_frozen)

CurrentlyFrozen(temperature, initial_freezing_point) ==
    ArrayLt(temperature, initial_freezing_point)

NewlyFrozen(temperature, initial_freezing_point, target_freezing_point) ==
    ArrayAnd(ArrayGe(temperature, initial_freezing_point),
             ArrayLt(temperature, target_freezing_point))

TotalFrozen(currently_frozen, newly_frozen) == ArrayOr(currently_frozen, newly_frozen)

\* a slip of line 122: the initial freezing point taken from the salinity grid
estimate_newly_frozen_area_FromGrid(temperature, salinity, initial, target) ==
    LET initial_freezing_point == calculate_freezing_point(salinity[1][1].v)
        target_freezing_point == calculate_freezing_point(target)
        currently_frozen == CurrentlyFrozen(temperature, initial_freezing_point)
        newly_frozen == NewlyFrozen(temperature, initial_freezing_point,
                                    target_freezing_point)
        total_frozen == TotalFrozen(currently_frozen, newly_frozen)
    IN  [currently_frozen_area |-> NpSum(currently_frozen),
         newly_frozen_area |-> NpSum(newly_frozen),
         total_frozen_area |-> NpSum(total_frozen),
         currently_frozen_map |-> currently_frozen,
         newly_frozen_map |-> newly_frozen,
         total_frozen_map |-> total_frozen]

\* estimate_newly_frozen_area(temperature_data, salinity_data, initial_salinity,
\* target_salinity): the returned dict.  salinity_data is never read.
estimate_newly_frozen_area(temperature, salinity, initial, target) ==
    LET initial_freezing_point == calculate_freezing_point(initial)
        target_freezing_point == calculate_freezing_point(target)
        currently_frozen == CurrentlyFrozen(temperature, initial_freezing_point)
        newly_frozen == NewlyFrozen(temperature, initial_freezing_point,
                                    target_freezing_point)
        total_frozen == TotalFrozen(currently_frozen, newly_frozen)
    IN  [currently_frozen_area |-> NpSum(currently_frozen),
         newly_frozen_area |-> NpSum(newly_frozen),
         total_frozen_area |-> NpSum(total_frozen),
         currently_frozen_map |-> currently_frozen,
         newly_frozen_map |-> newly_frozen,
         total_frozen_map |-> total_frozen]

\* no dict yet: the call has not returned
NoResult == [returned |-> FALSE]

\* the salinity arrays a call is given: the caller's field of the temperature
\* grid's shape, or an array of another shape (one cell)
SalinityFields(temperature, initial) ==
    {Uniform(Shape(temperature), Float(initial)), Uniform(<<1, 1>>, Float(initial))}

(***************************************************************************)
(* Decimal numbers of the scalar functions                                 *)
(*                                                                         *)
(* The scalar functions multiply and divide Python floats by literals such *)
(* as 1e6 and 1e9.  A number is the exact value n/d * 10^e, kept in the    *)
(* canonical form of Norm (n and d coprime, d coprime to 10, n not a       *)
(* multiple of 10), so that equal values are equal records.  The rounding  *)
(* of binary floats (a relative error near 1e-16) is not modelled.         *)
(***************************************************************************)
RECURSIVE GCD(_, _)
GCD(a, b) == IF b = 0 THEN a ELSE GCD(b, a % b)

Abs(x) == IF x < 0 THEN -x ELSE x

RECURSIVE Pow10(_)
Pow10(k) == IF k = 0 THEN 1 ELSE 10 * Pow10(k - 1)

RECURSIVE Norm(_, _, _)
Norm(n, d, e) ==
    IF n = 0 THEN [n |-> 0, d |-> 1, e |-> 0]
    ELSE LET g == GCD(Abs(n), d)
             n1 == n \div g
             d1 == d \div g
         IN  IF g > 1 THEN Norm(n1, d1, e)
             ELSE IF d % 2 = 0 THEN Norm(n * 5, d \div 2, e - 1)
             ELSE IF d % 5 = 0 THEN Norm(n * 2, d \div 5, e - 1)
             ELSE IF n % 10 = 0 THEN Norm(n \div 10, d, e + 1)
             ELSE [n |-> n, d |-> d, e |-> e]

\* an int, and a literal m e k such as 1e6 or 100e6
Num(n) == Norm(n, 1, 0)
Sci(m, k) == Norm(m, 1, k)
\* a slider value given in tenths (320 is 32.0)
Tenths(s) == Norm(s, 1, -1)

Mul(a, b) == Norm(a.n * b.n, a.d * b.d, a.e + b.e)
\* a / b for b > 0
Div(a, b) == Norm(a.n * b.d, a.d * b.n, a.e - b.e)
Sub(a, b) ==
    LET m == IF a.e < b.e THEN a.e ELSE b.e
    IN  Norm(a.n * Pow10(a.e - m) * b.d - b.n * Pow10(b.e - m) * a.d, a.d * b.d, m)
Positive(a) == a.n > 0

(***************************************************************************)
(* utils/calculations.py: the scalar functions                             *)
(***************************************************************************)
\* a slip of line 54: the - 1 left out
FreshwaterVolumeM3_Ratio(seawater_volume_m3, initial, target) ==
    Mul(seawater_volume_m3, Div(initial, target))

\* line 54: V_fresh = V_seawater * (S1/S2 - 1)
FreshwaterVolumeM3(seawater_volume_m3, initial, target) ==
    Mul(seawater_volume_m3, Sub(Div(initial, target), Num(1)))

\* calculate_freshwater_required(initial_salinity, target_salinity, area_km2,
\* depth_m): the returned dict
calculate_freshwater_required(initial, target, area, depth) ==
    LET area_m2 == Mul(area, Sci(1, 6))
        seawater_volume_m3 == Mul(area_m2, depth)
        freshwater_volume_m3 == FreshwaterVolumeM3(seawater_volume_m3, initial, target)
        seawater_volume_km3 == Div(seawater_volume_m3, Sci(1, 9))
        freshwater_volume_km3 == Div(freshwater_volume_m3, Sci(1, 9))
        global_desal_capacity_m3 == Mul(Sci(100, 6), Num(365))
        percent_global_desal ==
            Mul(Div(freshwater_volume_m3, global_desal_capacity_m3), Num(100))
        energy_kwh == Mul(freshwater_volume_m3, Num(4))
        energy_twh == Div(energy_kwh, Sci(1, 9))
    IN  [seawater_volume_km3 |-> seawater_volume_km3,
         freshwater_volume_km3 |-> freshwater_volume_km3,
         freshwater_volume_m3 |-> freshwater_volume_m3,
         percent_global_desal |-> percent_global_desal,
         energy_twh |-> energy_twh,
         river_comparisons |->
            [Amazon |-> Mul(Div(freshwater_volume_km3, Num(5500)), Num(100)),
             Rhine |-> Mul(Div(freshwater_volume_km3, Num(70)), Num(100)),
             Mississippi |-> Mul(Div(freshwater_volume_km3, Num(580)), Num(100))]]

\* a slip of line 178: kWh taken for TWh after a division by 1e6
EnergyTwhTotal_Giga(energy_kwh_total) == Div(energy_kwh_total, Sci(1, 6))

\* line 178
EnergyTwhTotal(energy_kwh_total) == Div(energy_kwh_total, Sci(1, 9))

\* calculate_desalination_metrics(freshwater_volume_km3): the returned dict
calculate_desalination_metrics(freshwater_volume_km3) ==
    LET freshwater_volume_m3 == Mul(freshwater_volume_km3, Sci(1, 9))
        large_desal_plant_capacity_m3_day == Sci(1, 6)
        large_desal_plant_capacity_m3_year ==
            Mul(large_desal_plant_capacity_m3_day, Num(365))
        large_desal_plant_capacity_km3_year ==
            Div(large_desal_plant_capacity_m3_year, Sci(1, 9))
        plants_needed == Div(freshwater_volume_km3, large_desal_plant_capacity_km3_year)
        energy_kwh_per_m3 == Num(4)
        energy_kwh_total == Mul(freshwater_volume_m3, energy_kwh_per_m3)
        vlcc_capacity_m3 == Num(300000)
        desal_cost_per_m3 == Num(1)
    IN  [plants_needed |-> plants_needed,
         energy_twh_total |-> EnergyTwhTotal(energy_kwh_total),
         tanker_trips |-> Div(freshwater_volume_m3, vlcc_capacity_m3),
         plant_cost_billion |-> Mul(plants_needed, Num(1)),
         operational_cost_billion |->
            Div(Mul(freshwater_volume_m3, desal_cost_per_m3), Sci(1, 9))]

(***************************************************************************)
(* utils/database.py: the store                                            *)
(*                                                                         *)
(* A table is the set of its rows; a row is a record of its columns.  A    *)
(* nullable number is <<>> (NULL, Python None) or <<x>>.  Every operation  *)
(* opens its own Session and commits at most once, so it is one atomic     *)
(* step on the tables.  The operations that only read (get_scenario,       *)
(* get_scenarios, get_results) are operators on the current tables; where  *)
(* the query leaves the order of rows open they give every list the        *)
(* database may return.                                                    *)
(***************************************************************************)
\* Spec: rows the two tables hold together, and the largest id issued
MaxRows == 2
\* SpecResults: rows of simulation_results, and the largest id issued
MaxResults == 3
\* SpecResults: the last instant of the clock
MaxClock == 2
\* the largest limit get_results is given, the default apart
MaxLimit == 2

Null == <<>>
Some(x) == <<x>>

\* Python truthiness of an optional number: None and 0 are falsy
Truthy(opt) == opt # Null /\ opt[1] # 0

\* what the last operation did: its name, "return" or "raise", and the value
\* returned or the exception raised
Returned(op, val) == <<op, "return", val>>
Raised(op, exception) == <<op, "raise", exception>>
NothingYet == <<"import", "return", <<>>>>

\* create_engine(DATABASE_URL): the database is chosen by the environment.  A
\* "sequence" database (PostgreSQL SERIAL) never issues an id twice; a "rowid"
\* database (SQLite INTEGER PRIMARY KEY) issues the largest stored id plus one.
Engines == {"sequence", "rowid"}

Max(S) == CHOOSE x \in S : \A y \in S : y <= x

Ids(table) == {r.id : r \in table}

NextId(table, seq) ==
    IF engine = "sequence" THEN seq + 1
    ELSE IF table = {} THEN 1 ELSE Max(Ids(table)) + 1

\* the columns of SimulationScenario
ScenarioColumns ==
    {"id", "name", "description", "created_at", "modified_at", "initial_salinity",
     "target_salinity", "area_km2", "depth_m", "season", "grid_size", "is_favorite"}

\* the nine parameters of save_scenario
ScenarioInputFields ==
    {"name", "description", "initial_salinity", "target_salinity", "area_km2",
     "depth_m", "season", "grid_size", "is_favorite"}

\* the argument lists save_scenario is called with
ScenarioInputs ==
    {[name |-> "Baseline", description |-> "", initial_salinity |-> 320,
      target_salinity |-> 300, area_km2 |-> 100000, depth_m |-> 10,
      season |-> "Winter", grid_size |-> 100, is_favorite |-> FALSE],
     [name |-> "Barents shelf", description |-> "Salinity reduction",
      initial_salinity |-> 350, target_salinity |-> 280, area_km2 |-> 1000,
      depth_m |-> 50, season |-> "N/A", grid_size |-> 50, is_favorite |-> TRUE]}

\* the keyword arguments update_scenario is called with
UpdateKwargs ==
    {[is_favorite |-> TRUE], [is_favorite |-> FALSE],
     [name |-> "Renamed", description |-> "edited"],
     [modified_at |-> 0],
     [no_such_column |-> 1]}
    \cup {[id |-> k] : k \in 1..MaxRows}

\* a slip of lines 195-205: grid_size left to the column's default
ScenarioRow_DefaultGridSize(new_id, a) ==
    [id |-> new_id, name |-> a.name, description |-> a.description,
     created_at |-> now, modified_at |-> now,
     initial_salinity |-> a.initial_salinity, target_salinity |-> a.target_salinity,
     area_km2 |-> a.area_km2, depth_m |-> a.depth_m, season |-> a.season,
     grid_size |-> 100, is_favorite |-> a.is_favorite]

\* SimulationScenario(...) as session.commit() inserts it: the defaults of
\* created_at and modified_at are utcnow
ScenarioRow(new_id, a) ==
    [id |-> new_id, name |-> a.name, description |-> a.description,
     created_at |-> now, modified_at |-> now,
     initial_salinity |-> a.initial_salinity, target_salinity |-> a.target_salinity,
     area_km2 |-> a.area_km2, depth_m |-> a.depth_m, season |-> a.season,
     grid_size |-> a.grid_size, is_favorite |-> a.is_favorite]

\* session.query(SimulationScenario).filter(SimulationScenario.id == scenario_id)
ScenariosWithId(scenario_id) == {r \in simulation_scenarios : r.id = scenario_id}

\* the dict get_scenario and get_scenarios build from a row
ScenarioDict(r) == r

NotFound == [found |-> FALSE]

\* get_scenario(scenario_id): the dict, or None (NotFound)
get_scenario(scenario_id) ==
    IF ScenariosWithId(scenario_id) = {} THEN NotFound
    ELSE ScenarioDict(CHOOSE r \in ScenariosWithId(scenario_id) : TRUE)

\* every list without repetition of the elements of S
Orderings(S) ==
    {q \in [1..Cardinality(S) -> S] : \A i, j \in 1..Cardinality(S) : q[i] = q[j] => i = j}

\* a slip of lines 224-225: the filtered query is not kept
FavoriteFilter_Ignored(favorite_only) == simulation_scenarios

\* the rows the query of get_scenarios selects
FavoriteFilter(favorite_only) ==
    IF favorite_only THEN {r \in simulation_scenarios : r.is_favorite = TRUE}
    ELSE simulation_scenarios

\* get_scenarios(favorite_only): the lists query.all() may return (no ORDER BY)
get_scenarios(favorite_only) ==
    {[i \in DOMAIN q |-> ScenarioDict(q[i])] : q \in Orderings(FavoriteFilter(favorite_only))}

\* save_scenario(**a)
save_scenario(a) ==
    LET new_id == NextId(simulation_scenarios, scenario_seq) IN
    /\ scenario_seq' = IF engine = "sequence" THEN new_id ELSE scenario_seq
    /\ IF new_id \in Ids(simulation_scenarios)
       THEN \* the INSERT violates the primary key: commit raises
            /\ ret' = Raised("save_scenario", "IntegrityError")
            /\ UNCHANGED simulation_scenarios
       ELSE /\ simulation_scenarios' = simulation_scenarios \cup {ScenarioRow(new_id, a)}
            /\ ret' = Returned("save_scenario", <<new_id>>)
    /\ UNCHANGED <<engine, simulation_results, result_seq, now>>
    /\ UNCHANGED gridVars
    /\ UNCHANGED appVars

\* the loop of lines 293-295 followed by line 297
ApplyKwargs(row, kwargs) ==
    [[c \in DOMAIN row |-> IF c \in DOMAIN kwargs THEN kwargs[c] ELSE row[c]]
        EXCEPT !.modified_at = now]

\* update_scenario(scenario_id, **kwargs)
update_scenario(scenario_id, kwargs) ==
    /\ IF ScenariosWithId(scenario_id) = {}
       THEN /\ ret' = Returned("update_scenario", <<FALSE>>)
            /\ UNCHANGED simulation_scenarios
       ELSE LET row == CHOOSE r \in ScenariosWithId(scenario_id) : TRUE
                updated == ApplyKwargs(row, kwargs)
            IN  IF updated.id \in Ids(simulation_scenarios \ {row})
                THEN \* the UPDATE violates the primary key: commit raises
                     /\ ret' = Raised("update_scenario", "IntegrityError")
                     /\ UNCHANGED simulation_scenarios
                ELSE /\ simulation_scenarios' =
                            (simulation_scenarios \ {row}) \cup {updated}
                     /\ ret' = Returned("update_scenario", <<TRUE>>)
    /\ UNCHANGED <<engine, simulation_results, scenario_seq, result_seq, now>>
    /\ UNCHANGED gridVars
    /\ UNCHANGED appVars

\* a slip of lines 315-316: session.delete without the commit
delete_scenario_NoCommit(scenario_id) ==
    /\ ret' = Returned("delete_scenario", <<ScenariosWithId(scenario_id) # {}>>)
    /\ UNCHANGED <<engine, simulation_scenarios, simulation_results, scenario_seq,
                   result_seq, now>>
    /\ UNCHANGED gridVars
    /\ UNCHANGED appVars

\* delete_scenario(scenario_id)
delete_scenario(scenario_id) ==
    /\ IF ScenariosWithId(scenario_id) = {}
       THEN /\ ret' = Returned("delete_scenario", <<FALSE>>)
            /\ UNCHANGED simulation_scenarios
       ELSE /\ simulation_scenarios' =
                   simulation_scenarios \ ScenariosWithId(scenario_id)
            /\ ret' = Returned("delete_scenario", <<TRUE>>)
    /\ UNCHANGED <<engine, simulation_results, scenario_seq, result_seq, now>>
    /\ UNCHANGED gridVars
    /\ UNCHANGED appVars

\* ---- results

\* a detailed_results payload: Python None, a dict (a sequence of items) or a
\* list (a sequence of values)
PyNone == [py |-> "None"]
PyDict(items) == [py |-> "dict", items |-> items]
PyList(items) == [py |-> "list", items |-> items]

\* Python truthiness of a payload: None, the empty dict and the empty list are
\* falsy
PyTruthy(p) == p.py # "None" /\ p.items # <<>>

\* the Text column detailed_results: NULL or a JSON text
NullText == [text |-> FALSE]
\* json.dumps: the JSON text of a payload (string keys, finite numbers): an
\* object for a dict, an array for a list
json_dumps(p) ==
    [text |-> TRUE,
     json |-> [type |-> IF p.py = "dict" THEN "object" ELSE "array",
               members |-> p.items]]
\* json.loads: the payload a JSON text denotes, a dict for an object and a
\* list for an array
json_loads(t) ==
    [py |-> IF t.json.type = "object" THEN "dict" ELSE "list",
     items |-> t.json.members]
\* Python truthiness of a Text value read back: None is falsy, a JSON text is
\* never the empty string
TextTruthy(t) == t.text

\* the argument lists save_result is called with, scenario_id apart: the
\* Freshwater Calculator's (lines 173-183 of its page) and the Saved
\* Simulations form's (lines 182-191 of its page)
ResultInputs ==
    {[freshwater_volume_km3 |-> 667, currently_frozen_area |-> Null,
      newly_frozen_area |-> Null, total_frozen_area |-> Null,
      percent_global_desal |-> Some(18), plants_needed |-> Some(18),
      energy_twh_total |-> Some(27),
      detailed_results |-> PyDict(<<<<"seawater_volume_km3", 1000>>>>)],
     [freshwater_volume_km3 |-> 1250, currently_frozen_area |-> Null,
      newly_frozen_area |-> Null, total_frozen_area |-> Null,
      percent_global_desal |-> Some(34), plants_needed |-> Null,
      energy_twh_total |-> Null, detailed_results |-> PyNone]}

\* the payloads save_result is given: none, empty ones, a dict and a list
Payloads ==
    {PyNone, PyDict(<<>>), PyList(<<>>),
     PyDict(<<<<"seawater_volume_km3", 1000>>>>), PyList(<<667, 1250>>)}

\* the argument lists of save_result with each of the payloads
PayloadInputs ==
    {[freshwater_volume_km3 |-> 667, currently_frozen_area |-> Null,
      newly_frozen_area |-> Null, total_frozen_area |-> Null,
      percent_global_desal |-> Some(18), plants_needed |-> Some(18),
      energy_twh_total |-> Some(27), detailed_results |-> p] : p \in Payloads}

\* the scenario_id a result is saved with: the column has no foreign key, 0 is
\* an id no scenario ever has
ResultScenarioIds == 0..MaxRows

\* SimulationResult(...) as session.commit() inserts it: run_at defaults to utcnow
ResultRow(new_id, scenario_id, a) ==
    [id |-> new_id, scenario_id |-> scenario_id, run_at |-> now,
     freshwater_volume_km3 |-> a.freshwater_volume_km3,
     currently_frozen_area |-> a.currently_frozen_area,
     newly_frozen_area |-> a.newly_frozen_area,
     total_frozen_area |-> a.total_frozen_area,
     percent_global_desal |-> a.percent_global_desal,
     plants_needed |-> a.plants_needed,
     energy_twh_total |-> a.energy_twh_total,
     detailed_results |-> IF PyTruthy(a.detailed_results)
                          THEN json_dumps(a.detailed_results) ELSE NullText]

\* save_result(scenario_id, **a)
save_result(scenario_id, a) ==
    LET new_id == NextId(simulation_results, result_seq) IN
    /\ result_seq' = IF engine = "sequence" THEN new_id ELSE result_seq
    /\ simulation_results' = simulation_results \cup {ResultRow(new_id, scenario_id, a)}
    /\ ret' = Returned("save_result", <<new_id>>)
    /\ UNCHANGED <<engine, simulation_scenarios, scenario_seq, now>>
    /\ UNCHANGED gridVars
    /\ UNCHANGED appVars

\* the dict get_results builds from a row
ResultDict(r) ==
    [r EXCEPT !.detailed_results =
        IF TextTruthy(r.detailed_results) THEN json_loads(r.detailed_results) ELSE PyNone]

\* a slip of lines 372-373: the filter compares the result's own id
ResultFilter_ById(scenario_id) ==
    IF Truthy(scenario_id)
    THEN {r \in simulation_results : r.id = scenario_id[1]}
    ELSE simulation_results

\* lines 372-373: the filter is added when scenario_id is truthy
ResultFilter(scenario_id) ==
    IF Truthy(scenario_id)
    THEN {r \in simulation_results : r.scenario_id = scenario_id[1]}
    ELSE simulation_results

\* ORDER BY run_at DESC: every order of the rows the database may produce
OrderByRunAtDesc(rows) ==
    {q \in Orderings(rows) : \A i, j \in DOMAIN q : i < j => q[i].run_at >= q[j].run_at}

\* LIMIT n
Limit(q, n) == SubSeq(q, 1, IF n < Len(q) THEN n ELSE Len(q))

DefaultLimit == 10

\* the limits get_results is called with
Limits == (0..MaxLimit) \cup {DefaultLimit}

\* the scenario_id get_results is called with: None, or an id
ResultQueryIds == {Null} \cup {Some(k) : k \in ResultScenarioIds}

\* get_results(scenario_id, limit): the lists query.all() may return
get_results(scenario_id, limit) ==
    {[i \in DOMAIN Limit(q, limit) |-> ResultDict(q[i])] :
        q \in OrderByRunAtDesc(ResultFilter(scenario_id))}

\* time passes: utcnow() moves on
Tick ==
    /\ now' = now + 1
    /\ UNCHANGED <<engine, simulation_scenarios, simulation_results, scenario_seq,
                   result_seq, ret>>
    /\ UNCHANGED gridVars
    /\ UNCHANGED appVars

(***************************************************************************)
(* pages/*.py: the page scripts                                            *)
(*                                                                         *)
(* Streamlit runs a page script from top to bottom at every interaction;   *)
(* one run is one step.  The values the widgets return are inputs of the   *)
(* run; the bounds of the sliders are not relied upon.  session_state      *)
(* holds a key as Some(value) and lacks it as Null; the keys that only     *)
(* preselect widgets (initial_salinity, ..., grid_size) are left out.      *)
(***************************************************************************)
\* st.session_state of a new browser session
EmptySession ==
    [freshwater_volume_km3 |-> Null, percent_global_desal |-> Null,
     plants_needed |-> Null, energy_twh_total |-> Null,
     currently_frozen_area |-> Null, newly_frozen_area |-> Null,
     total_frozen_area |-> Null]

\* what a run of a page script did: the message it showed, whether it called
\* calculate_freshwater_required, the ids save_scenario and save_result
\* returned to it, and the chart it drew (Null: none)
PageRun(script, message, calculated, scenario_id, result_id) ==
    [script |-> script, message |-> message, calculated |-> calculated,
     scenario_id |-> scenario_id, result_id |-> result_id, chart |-> Null]

NoPage == PageRun("none", "", FALSE, Null, Null)

\* the values the salinity sliders and the number inputs of a page return
PageSalinities == {300, 320}
PageAreas == {100000}
PageDepths == {10}

\* a slip of line 49 of the Freshwater Calculator: < for <=
InvalidDilutionRequest_Lt(initial, target) == initial < target

\* line 49 of the Freshwater Calculator: if initial_salinity <= target_salinity
InvalidDilutionRequest(initial, target) == initial <= target

\* the arguments of save_scenario at lines 160-169 of the Freshwater Calculator
CalculatorScenario(initial, target, area, depth) ==
    [name |-> "Freshwater Scenario", description |-> "Salinity reduction",
     initial_salinity |-> initial, target_salinity |-> target, area_km2 |-> area,
     depth_m |-> depth, season |-> "N/A", grid_size |-> 100, is_favorite |-> FALSE]

\* the arguments of save_result at lines 173-183 of the Freshwater Calculator
CalculatorResult(results, desal_metrics) ==
    [freshwater_volume_km3 |-> results.freshwater_volume_km3,
     currently_frozen_area |-> Null, newly_frozen_area |-> Null,
     total_frozen_area |-> Null,
     percent_global_desal |-> Some(results.percent_global_desal),
     plants_needed |-> Some(desal_metrics.plants_needed),
     energy_twh_total |-> Some(desal_metrics.energy_twh_total),
     detailed_results |->
        PyDict(<<<<"river_comparisons", results.river_comparisons>>,
                 <<"seawater_volume_km3", results.seawater_volume_km3>>>>)]

\* pages/02_Freshwater_Calculator.py: one run of the script, the button
\* "Save Results to Database" pressed or not
FreshwaterCalculator(initial, target, area, depth, save_button) ==
    LET results == calculate_freshwater_required(Tenths(initial), Tenths(target),
                                                 Num(area), Num(depth))
        desal_metrics == calculate_desalination_metrics(results.freshwater_volume_km3)
        calculated == [session_state EXCEPT
                          !.freshwater_volume_km3 = Some(results.freshwater_volume_km3),
                          !.percent_global_desal = Some(results.percent_global_desal)]
        pressed == [calculated EXCEPT
                          !.plants_needed = Some(desal_metrics.plants_needed),
                          !.energy_twh_total = Some(desal_metrics.energy_twh_total)]
        scenario_id == NextId(simulation_scenarios, scenario_seq)
        result_id == NextId(simulation_results, result_seq)
        script == "02_Freshwater_Calculator"
    IN
    /\ IF InvalidDilutionRequest(initial, target)
       THEN /\ page' = PageRun(script, "Target salinity must be lower", FALSE, Null, Null)
            /\ UNCHANGED <<session_state, simulation_scenarios, simulation_results,
                           scenario_seq, result_seq, ret>>
       ELSE IF ~save_button
       THEN /\ page' = PageRun(script, "Freshwater Requirements", TRUE, Null, Null)
            /\ session_state' = calculated
            /\ UNCHANGED <<simulation_scenarios, simulation_results, scenario_seq,
                           result_seq, ret>>
       ELSE IF ~reachable
       THEN \* save_scenario raises: the run ends with the exception
            /\ page' = PageRun(script, "OperationalError", TRUE, Null, Null)
            /\ session_state' = pressed
            /\ ret' = Raised("save_scenario", "OperationalError")
            /\ UNCHANGED <<simulation_scenarios, simulation_results, scenario_seq,
                           result_seq>>
       ELSE IF scenario_id \in Ids(simulation_scenarios)
       THEN /\ page' = PageRun(script, "IntegrityError", TRUE, Null, Null)
            /\ session_state' = pressed
            /\ ret' = Raised("save_scenario", "IntegrityError")
            /\ scenario_seq' = IF engine = "sequence" THEN scenario_id ELSE scenario_seq
            /\ UNCHANGED <<simulation_scenarios, simulation_results, result_seq>>
       ELSE /\ session_state' = pressed
            /\ simulation_scenarios' = simulation_scenarios \cup
                  {ScenarioRow(scenario_id, CalculatorScenario(initial, target, area, depth))}
            /\ scenario_seq' = IF engine = "sequence" THEN scenario_id ELSE scenario_seq
            /\ IF Truthy(Some(scenario_id))
               THEN /\ simulation_results' = simulation_results \cup
                          {ResultRow(result_id, scenario_id,
                                     CalculatorResult(results, desal_metrics))}
                    /\ result_seq' = IF engine = "sequence" THEN result_id ELSE result_seq
                    /\ ret' = Returned("save_result", <<result_id>>)
                    /\ page' = PageRun(script, "Scenario and results saved successfully!",
                                       TRUE, Some(scenario_id), Some(result_id))
               ELSE /\ ret' = Returned("save_scenario", <<scenario_id>>)
                    /\ page' = PageRun(script, "Failed to save scenario.", TRUE,
                                       Some(scenario_id), Null)
                    /\ UNCHANGED <<simulation_results, result_seq>>
    /\ UNCHANGED <<engine, now>>
    /\ UNCHANGED <<gridVars, geoVars, calcVars, field, runVars>>

\* a slip of line 181 of Saved Simulations: the results are never saved
FormSavesResult_Never(session) == FALSE

\* line 181 of Saved Simulations: if 'freshwater_volume_km3' in st.session_state
FormSavesResult(session) == session.freshwater_volume_km3 # Null

\* the arguments of save_result at lines 182-191 of Saved Simulations:
\* st.session_state.get(key) is None for a key the session lacks
FormResult(session) ==
    [freshwater_volume_km3 |->
        IF session.freshwater_volume_km3 = Null THEN Null
        ELSE session.freshwater_volume_km3[1],
     currently_frozen_area |-> session.currently_frozen_area,
     newly_frozen_area |-> session.newly_frozen_area,
     total_frozen_area |-> session.total_frozen_area,
     percent_global_desal |-> session.percent_global_desal,
     plants_needed |-> session.plants_needed,
     energy_twh_total |-> session.energy_twh_total,
     detailed_results |-> PyNone]

\* pages/05_Saved_Simulations.py: one run of the script with the form
\* "Save Scenario" submitted with the values a.  The listing of tab 1 comes
\* first: when get_scenarios raises, its handler reads selected_id, which this
\* run never bound, and the run ends before the form.
SaveScenarioForm(a) ==
    LET scenario_id == NextId(simulation_scenarios, scenario_seq)
        result_id == NextId(simulation_results, result_seq)
        script == "05_Saved_Simulations"
    IN
    /\ IF ~reachable
       THEN /\ page' = PageRun(script, "NameError", FALSE, Null, Null)
            /\ ret' = Raised("get_scenarios", "OperationalError")
            /\ UNCHANGED <<simulation_scenarios, simulation_results, scenario_seq,
                           result_seq>>
       ELSE IF scenario_id \in Ids(simulation_scenarios)
       THEN /\ page' = PageRun(script, "IntegrityError", FALSE, Null, Null)
            /\ ret' = Raised("save_scenario", "IntegrityError")
            /\ scenario_seq' = IF engine = "sequence" THEN scenario_id ELSE scenario_seq
            /\ UNCHANGED <<simulation_scenarios, simulation_results, result_seq>>
       ELSE /\ simulation_scenarios' =
                  simulation_scenarios \cup {ScenarioRow(scenario_id, a)}
            /\ scenario_seq' = IF engine = "sequence" THEN scenario_id ELSE scenario_seq
            /\ IF Truthy(Some(scenario_id))
               THEN IF FormSavesResult(session_state)
                    THEN /\ simulation_results' = simulation_results \cup
                               {ResultRow(result_id, scenario_id, FormResult(session_state))}
                         /\ result_seq' =
                               IF engine = "sequence" THEN result_id ELSE result_seq
                         /\ ret' = Returned("save_result", <<result_id>>)
                         /\ page' = PageRun(script, "saved successfully!", FALSE,
                                            Some(scenario_id), Some(result_id))
                    ELSE /\ ret' = Returned("save_scenario", <<scenario_id>>)
                         /\ page' = PageRun(script, "saved successfully!", FALSE,
                                            Some(scenario_id), Null)
                         /\ UNCHANGED <<simulation_results, result_seq>>
               ELSE /\ ret' = Returned("save_scenario", <<scenario_id>>)
                    /\ page' = PageRun(script, "Failed to save scenario.", FALSE,
                                       Some(scenario_id), Null)
                    /\ UNCHANGED <<simulation_results, result_seq>>
    /\ UNCHANGED <<engine, now, session_state>>
    /\ UNCHANGED <<gridVars, geoVars, calcVars, field, runVars>>

\* what the user does in the scenario-detail block
DetailButtons == {"none", "load_params", "delete_scenario", "favorite"}

\* lines 52-57 of Saved Simulations with these values of the names selected_id
\* (Null: the name is not bound) and scenarios: what the block shows
ScenarioDetail(selected_id, scenarios) ==
    IF selected_id = Null THEN "NameError"
    ELSE IF Truthy(selected_id) /\ \E s \in scenarios : s.id = selected_id[1]
    THEN "Scenario"
    ELSE ""

\* pages/05_Saved_Simulations.py: one run of the script with tab 1 in use, the
\* scenario selected in the selectbox and the button of the detail block the
\* user is after.  Lines 52-112 are indented under the handler of line 47,
\* after scenarios = []: they run only when line 30 raised, with selected_id
\* never bound.  (Load Parameters would write six more keys to the session.)
SavedScenarios(selected, button) ==
    LET script == "05_Saved_Simulations" IN
    /\ IF reachable
       THEN \* lines 30-46 end without an exception: the handler is skipped
            /\ IF simulation_scenarios = {} THEN selected = 0
               ELSE selected \in Ids(simulation_scenarios)
            /\ page' = PageRun(script,
                               IF simulation_scenarios = {}
                               THEN "You don't have any saved scenarios yet."
                               ELSE "Select scenario to view or load:",
                               FALSE, Null, Null)
            /\ ret' = Returned("get_results", <<>>)
            /\ UNCHANGED simulation_scenarios
       ELSE \* get_scenarios raises at line 30: lines 48-112
            LET scenarios == {}
                selected_id == Null
                detail == ScenarioDetail(selected_id, scenarios)
            IN  /\ page' = PageRun(script, detail, FALSE, Null, Null)
                /\ ret' = Raised("get_scenarios", "OperationalError")
                /\ simulation_scenarios' =
                      IF detail = "Scenario" /\ button = "delete_scenario"
                      THEN simulation_scenarios \ ScenariosWithId(selected)
                      ELSE IF detail = "Scenario" /\ button = "favorite"
                      THEN {IF r.id = selected
                            THEN ApplyKwargs(r, [is_favorite |-> ~r.is_favorite])
                            ELSE r : r \in simulation_scenarios}
                      ELSE simulation_scenarios
    /\ UNCHANGED <<engine, simulation_results, scenario_seq, result_seq, now,
                   session_state>>
    /\ UNCHANGED <<gridVars, geoVars, calcVars, field, runVars>>

\* the browser session ends and a new one starts
NewSession ==
    /\ session_state # EmptySession
    /\ session_state' = EmptySession
    /\ page' = NoPage
    /\ UNCHANGED <<gridVars, storeVars, geoVars, calcVars, field, runVars>>

(***************************************************************************)
(* The geoengineering comparison                                           *)
(***************************************************************************)
\* a row of geoengineering_approaches, the text columns left out
Approach(id, name, effectiveness, feasibility, cost_efficiency, environmental_impact, technological_readiness, scalability) ==
    [id |-> id, name |-> name, effectiveness |-> effectiveness,
     feasibility |-> feasibility, cost_efficiency |-> cost_efficiency,
     environmental_impact |-> environmental_impact,
     technological_readiness |-> technological_readiness,
     scalability |-> scalability]

\* init_db: the six default approaches, inserted into the empty table
default_approaches ==
    {Approach(1, "Salinity Reduction", 7, 5, 4, 6, 4, 6),
     Approach(2, "Ice Thickening", 6, 7, 6, 7, 7, 4),
     Approach(3, "Reflective Materials", 8, 6, 5, 4, 6, 7),
     Approach(4, "Undersea Barriers", 7, 3, 2, 5, 3, 5),
     Approach(5, "Cloud Seeding", 5, 6, 7, 5, 8, 6),
     Approach(6, "Geotextiles", 4, 5, 3, 6, 7, 3)}

\* a trace of the radar chart: the approach and its six metrics, the first
\* repeated to close the loop
Trace(name, effectiveness, feasibility, cost_efficiency, environmental_impact, technological_readiness, scalability) ==
    [name |-> name,
     r |-> <<effectiveness, feasibility, cost_efficiency, environmental_impact,
             technological_readiness, scalability, effectiveness>>]

\* data/arctic_data.py, get_geoengineering_comparison_data: the static table,
\* drawn as traces
get_geoengineering_comparison_data ==
    {Trace("Salinity Reduction", 7, 5, 4, 6, 4, 6),
     Trace("Ice Thickening", 6, 7, 6, 7, 7, 4),
     Trace("Reflective Materials", 8, 6, 5, 4, 6, 7),
     Trace("Undersea Barriers", 7, 3, 2, 5, 3, 5),
     Trace("Cloud Seeding", 5, 6, 7, 5, 8, 6),
     Trace("Geotextiles", 4, 5, 3, 6, 7, 3)}

\* get_geoengineering_approaches(): the rows of the table (query.all())
get_geoengineering_approaches == geoengineering_approaches

\* plot_geoengineering_comparison(): one trace per row that
\* get_geoengineering_approaches returned (the order of the traces is the
\* order of the rows, which the query leaves open)
plot_geoengineering_comparison ==
    {Trace(a.name, a.effectiveness, a.feasibility, a.cost_efficiency,
           a.environmental_impact, a.technological_readiness, a.scalability) :
        a \in get_geoengineering_approaches}

\* pages/04_Geoengineering_Approaches.py: one run of the script.  Session()
\* of get_geoengineering_approaches raises when the database does not answer;
\* nothing between the query and st.plotly_chart catches it.
GeoengineeringApproaches ==
    LET script == "04_Geoengineering_Approaches" IN
    /\ IF reachable
       THEN /\ page' = [PageRun(script, "Comparison of Geoengineering Approaches",
                                FALSE, Null, Null)
                           EXCEPT !.chart = Some(plot_geoengineering_comparison)]
            /\ ret' = Returned("get_geoengineering_approaches", <<>>)
       ELSE /\ page' = PageRun(script, "OperationalError", FALSE, Null, Null)
            /\ ret' = Raised("get_geoengineering_approaches", "OperationalError")
    /\ UNCHANGED <<engine, simulation_scenarios, simulation_results, scenario_seq,
                   result_seq, now, session_state>>
    /\ UNCHANGED <<gridVars, geoVars, calcVars, field, runVars>>

\* the database stops answering, or answers again
Disconnect ==
    /\ reachable
    /\ reachable' = FALSE
    /\ UNCHANGED <<gridVars, storeVars, pageVars, geoengineering_approaches, calcVars, field,
                   runVars>>

Reconnect ==
    /\ ~reachable
    /\ reachable' = TRUE
    /\ UNCHANGED <<gridVars, storeVars, pageVars, geoengineering_approaches, calcVars, field,
                   runVars>>

\* the processes that import utils.database or run setup_database.py
Processes == {1, 2}

\* a process outside init_db: the count it read was local to the call
NotInInitDb == [pc |-> "done", count |-> 0]

\* a process that has not called init_db yet
BeforeInitDb == [pc |-> "start", count |-> 0]

\* a slip of line 101: the defaults are added whatever the count
SeedNeeded_Always(count) == TRUE

\* line 101: session.query(GeoEngineeringApproach).count() == 0
SeedNeeded(count) == count = 0

\* lines 182-183: session.add_all(default_approaches); session.commit().  The
\* table has no unique column but id, which the database issues after the
\* ids it holds.
InsertDefaults(table) ==
    LET last == Max(Ids(table) \cup {0})
    IN  table \cup {[a EXCEPT !.id = last + a.id] : a \in default_approaches}

\* init_db, first half, in process p: create_all, then the count of line 101
InitDbCount(p) ==
    /\ init_db_calls[p].pc = "start"
    /\ init_db_calls' = [init_db_calls EXCEPT
                            ![p] = [pc |-> "counted",
                                    count |-> Cardinality(geoengineering_approaches)]]
    /\ UNCHANGED <<gridVars, storeVars, pageVars, reachable, geoengineering_approaches,
                   calcVars, field, cache_data, simulation>>

\* init_db, second half, in process p: lines 101-184 with the count it read
InitDbSeed(p) ==
    /\ init_db_calls[p].pc = "counted"
    /\ geoengineering_approaches' =
          IF SeedNeeded(init_db_calls[p].count)
          THEN InsertDefaults(geoengineering_approaches)
          ELSE geoengineering_approaches
    /\ init_db_calls' = [init_db_calls EXCEPT ![p] = NotInInitDb]
    /\ UNCHANGED <<gridVars, storeVars, pageVars, reachable, calcVars, field,
                   cache_data, simulation>>

\* init_db() run by process p with no other process in it: the import of
\* utils.database (line 426) or setup_database.py
init_db(p) ==
    /\ \A q \in Processes : init_db_calls[q].pc # "counted"
    /\ LET count == Cardinality(geoengineering_approaches)
       IN  /\ geoengineering_approaches' =
                 IF SeedNeeded(count)
                 THEN InsertDefaults(geoengineering_approaches)
                 ELSE geoengineering_approaches
           /\ init_db_calls' = [init_db_calls EXCEPT ![p] = NotInInitDb]
    /\ UNCHANGED <<gridVars, storeVars, pageVars, reachable, calcVars, field,
                   cache_data, simulation>>

\* setup_database.py is started, or a process imports utils.database again
StartInitDb(p) ==
    /\ init_db_calls[p].pc = "done"
    /\ init_db_calls' = [init_db_calls EXCEPT ![p] = BeforeInitDb]
    /\ UNCHANGED <<gridVars, storeVars, pageVars, geoVars, calcVars, field,
                   cache_data, simulation>>

\* init_db has run, and the Ice Expansion Simulation has not
RunIdle ==
    /\ init_db_calls = [p \in Processes |-> NotInInitDb]
    /\ cache_data = <<>>
    /\ simulation = NoResult

\* nothing but the store and the grid is in use
AppIdle ==
    /\ RunIdle
    /\ session_state = EmptySession
    /\ page = NoPage
    /\ reachable = TRUE
    /\ geoengineering_approaches = default_approaches
    /\ area_km2 = 100000
    /\ depth_m = 10
    /\ calc_result = NoResult
    /\ field = NoResult

\* the arguments of update_scenario and delete_scenario: stored ids or not
ScenarioIdArgs == 0..MaxRows

GridIdle ==
    /\ temperature_data = Uniform(<<1, 1>>, Float(0))
    /\ salinity_data = Uniform(<<1, 1>>, Float(320))
    /\ initial_salinity = 320
    /\ target_salinity = 300
    /\ frozen_result = NoResult

\* the state after utils.database is imported: the tables exist and are empty
Init ==
    /\ engine \in Engines
    /\ simulation_scenarios = {}
    /\ simulation_results = {}
    /\ scenario_seq = 0
    /\ result_seq = 0
    /\ now = 0
    /\ ret = NothingYet
    /\ GridIdle
    /\ AppIdle

RowCount == Cardinality(simulation_scenarios) + Cardinality(simulation_results)

\* the whole store within one instant of the clock, at most MaxRows rows in it
Next ==
    \/ /\ RowCount < MaxRows
       /\ NextId(simulation_scenarios, scenario_seq) <= MaxRows
       /\ \E a \in ScenarioInputs : save_scenario(a)
    \/ \E i \in ScenarioIdArgs, kwargs \in UpdateKwargs : update_scenario(i, kwargs)
    \/ \E i \in ScenarioIdArgs : delete_scenario(i)
    \/ /\ RowCount < MaxRows
       /\ NextId(simulation_results, result_seq) <= MaxRows
       /\ \E i \in ResultScenarioIds, a \in ResultInputs : save_result(i, a)

Spec == Init /\ [][Next]_vars

\* the whole store over two instants: the timestamps of the rows differ
NextClock ==
    \/ Next
    \/ now < 1 /\ Tick

SpecClock == Init /\ [][NextClock]_vars

\* the results table alone: saves at MaxClock + 1 instants, up to MaxResults rows
NextResults ==
    \/ /\ NextId(simulation_results, result_seq) <= MaxResults
       /\ \E i \in ResultScenarioIds, a \in ResultInputs : save_result(i, a)
    \/ now < MaxClock /\ Tick

SpecResults == Init /\ [][NextResults]_vars

\* the rows of the results table while the payloads are explored
MaxPayloadRows == 2

\* the results table, saved to with every payload
NextPayload ==
    /\ NextId(simulation_results, result_seq) <= MaxPayloadRows
    /\ \E i \in ResultScenarioIds, a \in PayloadInputs : save_result(i, a)

SpecPayload == Init /\ [][NextPayload]_vars

\* the pages of one browser session after another, the database answering or
\* not, at most MaxRows scenarios stored
NextPages ==
    \/ /\ Cardinality(simulation_scenarios) < MaxRows
       /\ \E initial \in PageSalinities, target \in PageSalinities,
             area \in PageAreas, depth \in PageDepths, save_button \in BOOLEAN :
             FreshwaterCalculator(initial, target, area, depth, save_button)
    \/ /\ Cardinality(simulation_scenarios) < MaxRows
       /\ \E a \in ScenarioInputs : SaveScenarioForm(a)
    \/ \E selected \in ScenarioIdArgs, button \in DetailButtons :
          SavedScenarios(selected, button)
    \/ GeoengineeringApproaches
    \/ NewSession
    \/ Disconnect
    \/ Reconnect

SpecPages == Init /\ [][NextPages]_vars

\* a new database: no process has imported utils.database, the tables are
\* not yet created
InitSeed ==
    /\ engine \in Engines
    /\ simulation_scenarios = {}
    /\ simulation_results = {}
    /\ scenario_seq = 0
    /\ result_seq = 0
    /\ now = 0
    /\ ret = NothingYet
    /\ GridIdle
    /\ session_state = EmptySession
    /\ page = NoPage
    /\ reachable = TRUE
    /\ geoengineering_approaches = {}
    /\ area_km2 = 100000
    /\ depth_m = 10
    /\ calc_result = NoResult
    /\ field = NoResult
    /\ init_db_calls = [p \in Processes |-> BeforeInitDb]
    /\ cache_data = <<>>
    /\ simulation = NoResult

\* some process has imported utils.database: its functions can be called
Imported == \E p \in Processes : init_db_calls[p].pc = "done"

\* init_db calls one after another (the imports and the setup script), with
\* the scenario and result operations in between
NextSeed ==
    \/ \E p \in Processes : init_db(p)
    \/ Imported /\ Next

SpecSeed == InitSeed /\ [][NextSeed]_vars

\* the processes inside init_db at the same time, the scenarios saved and
\* deleted meanwhile
NextRace ==
    \/ \E p \in Processes : InitDbCount(p)
    \/ \E p \in Processes : InitDbSeed(p)
    \/ \E p \in Processes : StartInitDb(p)
    \/ /\ Imported
       /\ RowCount < MaxRows
       /\ NextId(simulation_scenarios, scenario_seq) <= MaxRows
       /\ \E a \in ScenarioInputs : save_scenario(a)
    \/ Imported /\ \E i \in ScenarioIdArgs : delete_scenario(i)

SpecRace == InitSeed /\ [][NextRace]_vars

\* the store is not used while estimate_newly_frozen_area is checked
StoreIdle ==
    /\ engine = "sequence"
    /\ simulation_scenarios = {}
    /\ simulation_results = {}
    /\ scenario_seq = 0
    /\ result_seq = 0
    /\ now = 0
    /\ ret = NothingYet

InitGrid ==
    /\ temperature_data \in Grids(TemperatureValues)
    /\ initial_salinity \in SalinityValues
    /\ target_salinity \in SalinityValues
    /\ salinity_data \in SalinityFields(temperature_data, initial_salinity)
    /\ frozen_result = NoResult
    /\ StoreIdle
    /\ AppIdle

\* the call of estimate_newly_frozen_area returns
EstimateNewlyFrozenArea ==
    /\ frozen_result = NoResult
    /\ frozen_result' = estimate_newly_frozen_area(temperature_data, salinity_data,
                                                   initial_salinity, target_salinity)
    /\ UNCHANGED <<temperature_data, salinity_data, initial_salinity, target_salinity>>
    /\ UNCHANGED storeVars
    /\ UNCHANGED appVars

NextGrid == EstimateNewlyFrozenArea

SpecGrid == InitGrid /\ [][NextGrid]_vars

(***************************************************************************)
(* One call of a scalar function of utils/calculations.py (SpecCalc)       *)
(***************************************************************************)
\* the salinities (tenths of a PSU), areas (km2) and depths (m) of a call
CalcSalinities == {0, 280, 300, 320, 350}
CalcAreas == {1000, 100000, 1000000, 5640000, 14000000}
CalcDepths == {1, 10, 50}

\* data/arctic_data.py, get_salinity_reduction_examples
get_salinity_reduction_examples ==
    {[name |-> "Small Regional Intervention", area_km2 |-> 100000, depth_m |-> 10,
      salinity_reduction |-> 2, freshwater_km3 |-> Norm(667, 1, -2)],
     [name |-> "Medium Arctic Basin", area_km2 |-> 1000000, depth_m |-> 10,
      salinity_reduction |-> 2, freshwater_km3 |-> Norm(667, 1, -1)],
     [name |-> "Large Scale Arctic-wide", area_km2 |-> 5640000, depth_m |-> 10,
      salinity_reduction |-> 2, freshwater_km3 |-> Norm(3760, 1, -1)]}

\* the freshwater volumes (km3) calculate_desalination_metrics is called with:
\* 0, 1, 66.7, and the volume calculate_freshwater_required gives for the
\* arguments of the state (as the Freshwater Calculator passes it, line 96)
DesalVolumes ==
    {Num(0), Num(1), Norm(667, 1, -1)} \cup
    (IF target_salinity > 0
     THEN {calculate_freshwater_required(Tenths(initial_salinity),
               Tenths(target_salinity), Num(area_km2), Num(depth_m)).freshwater_volume_km3}
     ELSE {})

CalcReturned(function, value) == [function |-> function, value |-> value]
CalcRaised(function, exception) == [function |-> function, raised |-> exception]

InitCalc ==
    /\ initial_salinity \in CalcSalinities
    /\ target_salinity \in CalcSalinities
    /\ area_km2 \in CalcAreas
    /\ depth_m \in CalcDepths
    /\ calc_result = NoResult
    /\ temperature_data = Uniform(<<1, 1>>, Float(0))
    /\ salinity_data = Uniform(<<1, 1>>, Float(320))
    /\ frozen_result = NoResult
    /\ StoreIdle
    /\ session_state = EmptySession
    /\ page = NoPage
    /\ reachable = TRUE
    /\ geoengineering_approaches = default_approaches
    /\ field = NoResult
    /\ RunIdle

CalcFrame ==
    /\ UNCHANGED <<area_km2, depth_m, field, runVars>>
    /\ UNCHANGED <<gridVars, storeVars, pageVars, geoVars>>

\* calculate_freezing_point of the two salinities (as lines 99-100 of the Ice
\* Expansion Simulation call it)
CalculateFreezingPoint ==
    /\ calc_result = NoResult
    /\ calc_result' = CalcReturned("calculate_freezing_point",
                          [initial |-> calculate_freezing_point(initial_salinity),
                           target |-> calculate_freezing_point(target_salinity)])
    /\ CalcFrame

\* calculate_freshwater_required; a target salinity of 0.0 raises at line 54
CalculateFreshwaterRequired ==
    /\ calc_result = NoResult
    /\ calc_result' =
          IF target_salinity = 0
          THEN CalcRaised("calculate_freshwater_required", "ZeroDivisionError")
          ELSE CalcReturned("calculate_freshwater_required",
                   calculate_freshwater_required(Tenths(initial_salinity),
                       Tenths(target_salinity), Num(area_km2), Num(depth_m)))
    /\ CalcFrame

CalculateDesalinationMetrics(freshwater_volume_km3) ==
    /\ calc_result = NoResult
    /\ calc_result' = [function |-> "calculate_desalination_metrics",
                       freshwater_volume_km3 |-> freshwater_volume_km3,
                       value |-> calculate_desalination_metrics(freshwater_volume_km3)]
    /\ CalcFrame

NextCalc ==
    \/ CalculateFreezingPoint
    \/ CalculateFreshwaterRequired
    \/ \E v \in DesalVolumes : CalculateDesalinationMetrics(v)

SpecCalc == InitCalc /\ [][NextCalc]_vars

(***************************************************************************)
(* The synthetic field generators (SpecField)                              *)
(*                                                                         *)
(* generate_arctic_data of the Ice Expansion Simulation page and            *)
(* generate_simulated_arctic_data of data/arctic_data.py fill a            *)
(* grid_size x grid_size grid cell by cell; one cell of one call is         *)
(* modelled.  A cell value is linear in the normalized distance             *)
(* nd = sqrt(d2) / half: Lin(c, k) is c + k*nd.  Its value is the record    *)
(* [n, d, k], n/d + k*nd with n/d in lowest terms, where k is 0 whenever nd *)
(* is rational, so that equal values are equal records.  Temperatures are  *)
(* in degrees C, salinities in tenths of a PSU.                             *)
(***************************************************************************)
Lin(c, k) == [c |-> c, k |-> k]
LinAdd(a, b) == Lin(a.c + b.c, a.k + b.k)
LinSub(a, b) == Lin(a.c - b.c, a.k - b.k)
LinScale(x, a) == Lin(x * a.c, x * a.k)
\* the normalized distance itself
Nd == Lin(0, 1)

\* (i - center_x)**2 + (j - center_y)**2
SquaredDistance(grid_size, i, j) ==
    LET center_x == grid_size \div 2
        center_y == grid_size \div 2
    IN  (i - center_x) * (i - center_x) + (j - center_y) * (j - center_y)

RECURSIVE Root(_, _)
\* the largest r with r * r <= x, for x >= 1, by Newton's iteration from
\* above: from is at least that r, and the iteration stops when it no longer
\* decreases
Root(x, from) ==
    LET next == (from + x \div from) \div 2
    IN  IF next >= from THEN from ELSE Root(x, next)
ISqrt(x) == IF x = 0 THEN 0 ELSE Root(x, x)
IsSquare(x) == LET r == ISqrt(x) IN r * r = x

\* the value of a linear form at the cell: np.sqrt(d2) / (grid_size // 2) put in
Eval(a, d2, half) ==
    IF IsSquare(d2)
    THEN LET n == a.c * half + a.k * ISqrt(d2)
             g == GCD(Abs(n), half)
         IN  [n |-> n \div g, d |-> half \div g, k |-> 0]
    ELSE [n |-> a.c, d |-> 1, k |-> a.k]

\* normalized_distance <= 1.0
InsideCircle(grid_size, i, j) ==
    LET half == grid_size \div 2
    IN  SquaredDistance(grid_size, i, j) <= half * half

\* season_temp_adjust of generate_arctic_data
season_temp_adjust ==
    [Winter |-> -5, Spring |-> -2, Summer |-> 0, Fall |-> -3]

Seasons == {"Winter", "Spring", "Summer", "Fall"}

\* pages/03_Ice_Expansion_Simulation.py, generate_arctic_data(grid_size,
\* season), with the initial_salinity of the script (tenths of a PSU): the
\* temperature and the salinity of cell (i, j)
generate_arctic_data(grid_size, season, base_salinity, i, j) ==
    LET half == grid_size \div 2
        d2 == SquaredDistance(grid_size, i, j)
    IN  IF InsideCircle(grid_size, i, j)
        THEN [temperature |->
                Eval(LinAdd(LinAdd(Lin(-10, 0), LinScale(15, Nd)),
                            Lin(season_temp_adjust[season], 0)), d2, half),
              salinity |->
                Eval(LinSub(Lin(base_salinity, 0),
                            LinScale(20, LinSub(Lin(1, 0), Nd))), d2, half)]
        ELSE [temperature |->
                Eval(LinAdd(Lin(5, 0), LinScale(5, LinSub(Nd, Lin(1, 0)))), d2, half),
              salinity |-> Eval(Lin(base_salinity, 0), d2, half)]

\* data/arctic_data.py, generate_simulated_arctic_data(grid_size): the
\* temperature and the salinity of cell (i, j)
generate_simulated_arctic_data(grid_size, i, j) ==
    LET half == grid_size \div 2
        d2 == SquaredDistance(grid_size, i, j)
    IN  IF InsideCircle(grid_size, i, j)
        THEN [temperature |->
                Eval(LinAdd(Lin(-10, 0), LinScale(15, Nd)), d2, half),
              salinity |->
                Eval(LinSub(Lin(320, 0), LinScale(20, LinSub(Lin(1, 0), Nd))),
                     d2, half)]
        ELSE [temperature |->
                Eval(LinAdd(Lin(5, 0), LinScale(5, LinSub(Nd, Lin(1, 0)))), d2, half),
              salinity |-> Eval(Lin(350, 0), d2, half)]

\* np.ogrid[-grid_size//2:grid_size//2]: the integers from (-grid_size) // 2
\* (the minus sign binds before the floor division) up to grid_size // 2 - 1
Ogrid(grid_size) ==
    [n \in 1..((grid_size \div 2) - ((-grid_size) \div 2)) |->
        ((-grid_size) \div 2) + n - 1]

\* the shape of the mask array x**2 + y**2 <= (grid_size//2)**2, y a column and
\* x a row of Ogrid values
MaskShape(grid_size) == <<Len(Ogrid(grid_size)), Len(Ogrid(grid_size))>>

\* mask[i, j] of both generators (i, j count from 0)
Mask(grid_size, i, j) ==
    LET y == Ogrid(grid_size)[i + 1]
        x == Ogrid(grid_size)[j + 1]
    IN  x * x + y * y <= (grid_size \div 2) * (grid_size \div 2)

\* the shape of np.zeros((grid_size, grid_size))
ZerosShape(grid_size) == <<grid_size, grid_size>>

\* the grid sizes of a call, and the rows and columns looked at: all of a
\* small grid, the edges and the centre of a large one
FieldGridSizes == {2, 3, 4, 5, 50, 100}
FieldIndexes(grid_size) ==
    IF grid_size <= 5 THEN 0..(grid_size - 1)
    ELSE {0, 1, grid_size \div 2 - 1, grid_size \div 2, grid_size \div 2 + 1,
          grid_size - 1}

\* the base salinities (tenths of a PSU) of the page's slider
FieldSalinities == {300, 320, 350}

\* a call not yet made: generate_arctic_data with the page's season and
\* initial_salinity, or generate_simulated_arctic_data, whose season is none
\* and whose base salinity is the 32 of its line 41
FieldCalls ==
    UNION {
        {[called |-> FALSE, generator |-> "generate_arctic_data", grid_size |-> g,
          season |-> s, base_salinity |-> b, i |-> i, j |-> j] :
            s \in Seasons, b \in FieldSalinities,
            i \in FieldIndexes(g), j \in FieldIndexes(g)}
        \cup
        {[called |-> FALSE, generator |-> "generate_simulated_arctic_data",
          grid_size |-> g, season |-> "none", base_salinity |-> 320,
          i |-> i, j |-> j] :
            i \in FieldIndexes(g), j \in FieldIndexes(g)}
        : g \in FieldGridSizes}

InitField ==
    /\ field \in FieldCalls
    /\ RunIdle
    /\ GridIdle
    /\ StoreIdle
    /\ session_state = EmptySession
    /\ page = NoPage
    /\ reachable = TRUE
    /\ geoengineering_approaches = default_approaches
    /\ area_km2 = 100000
    /\ depth_m = 10
    /\ calc_result = NoResult

\* the generator fills the cell
GenerateCell ==
    /\ ~field.called
    /\ field' =
          LET cell == IF field.generator = "generate_arctic_data"
                      THEN generate_arctic_data(field.grid_size, field.season,
                               field.base_salinity, field.i, field.j)
                      ELSE generate_simulated_arctic_data(field.grid_size,
                               field.i, field.j)
          IN  [called |-> TRUE, generator |-> field.generator,
               grid_size |-> field.grid_size, season |-> field.season,
               base_salinity |-> field.base_salinity, i |-> field.i, j |-> field.j,
               temperature |-> cell.temperature, salinity |-> cell.salinity,
               mask |-> Mask(field.grid_size, field.i, field.j),
               temperature_shape |-> ZerosShape(field.grid_size),
               salinity_shape |-> ZerosShape(field.grid_size),
               mask_shape |-> MaskShape(field.grid_size)]
    /\ UNCHANGED <<gridVars, storeVars, pageVars, geoVars, calcVars, runVars>>

NextField == GenerateCell

SpecField == InitField /\ [][NextField]_vars

(***************************************************************************)
(* The Ice Expansion Simulation page (SpecIce)                             *)
(*                                                                         *)
(* One run of pages/03_Ice_Expansion_Simulation.py per action, the widgets *)
(* holding any values the user can set.  The arrays are restricted to the  *)
(* rows and columns the model looks at: the first and the middle row, the  *)
(* two edge columns and every seventh column from the centre.  The cells   *)
(* outside the mask are in the first row, the cells inside it in the       *)
(* middle row, where the normalized distance is rational.  The areas of a  *)
(* run count the cells looked at.                                          *)
(***************************************************************************)
\* the values of the widgets that are looked at: initial salinities of the
\* slider 30.0..35.0, grid sizes of the slider 50..200 by 10
IceInitialSalinities == {300, 320, 350}
IceGridSizes == {50, 60}
DefaultTargetSalinity == 300

\* the target slider runs from 28.0 to initial_salinity - 0.1
IceTargetSalinities(initial) ==
    {t \in {280, DefaultTargetSalinity} : t <= initial - 1}

\* st.slider raises when its default value 30.0 is above its max_value
TargetSliderRaises(initial) == DefaultTargetSalinity > initial - 1

\* the rows and the columns of the arrays that are looked at
IceRows(grid_size) == <<0, grid_size \div 2>>
IceColumns(grid_size) ==
    <<0>> \o [n \in 1..5 |-> grid_size \div 2 + 7 * (n - 3)] \o <<grid_size - 1>>

RECURSIVE GeneratedRow(_, _, _, _, _, _)
\* the inner loop of generate_arctic_data over the first n columns looked at:
\* row i of the array of this name
GeneratedRow(array, grid_size, season, base_salinity, i, n) ==
    IF n = 0 THEN <<>>
    ELSE LET j == IceColumns(grid_size)[n]
         IN  Append(GeneratedRow(array, grid_size, season, base_salinity, i, n - 1),
                    IF array = "mask" THEN Mask(grid_size, i, j)
                    ELSE generate_arctic_data(grid_size, season, base_salinity,
                                              i, j)[array])

\* one of the three arrays: the rows looked at
GeneratedArray(array, grid_size, season, base_salinity) ==
    <<GeneratedRow(array, grid_size, season, base_salinity,
                   IceRows(grid_size)[1], Len(IceColumns(grid_size))),
      GeneratedRow(array, grid_size, season, base_salinity,
                   IceRows(grid_size)[2], Len(IceColumns(grid_size)))>>

\* the three arrays generate_arctic_data returns, the script's initial_salinity
\* being base_salinity when the body runs
GeneratedArrays(grid_size, season, base_salinity) ==
    [temperature |-> GeneratedArray("temperature", grid_size, season, base_salinity),
     salinity |-> GeneratedArray("salinity", grid_size, season, base_salinity),
     mask |-> GeneratedArray("mask", grid_size, season, base_salinity)]

\* @st.cache_data: the key is made of the arguments of the call
CacheHit(key) == key \in DOMAIN cache_data

\* a generated temperature as a float of the grid's unit (1e-4 degrees C),
\* rounded down: a freezing point is a whole number of units, so that every
\* comparison with one is kept.  Only a cell with a rational normalized
\* distance is converted.
ToFloat(value) ==
    CASE value.k = 0 -> Float((value.n * 10000) \div value.d)

\* a slip of line 92: a low value outside the Arctic
MaskedTemperature_Cold(temperature, arctic_mask) ==
    [r \in 1..Len(temperature) |-> [c \in 1..Len(temperature[1]) |->
        IF arctic_mask[r][c] THEN ToFloat(temperature[r][c]) ELSE Float(-100000)]]

\* temperature_masked = np.copy(temperature); temperature_masked[~arctic_mask] = 10
MaskedTemperature(temperature, arctic_mask) ==
    [r \in 1..Len(temperature) |-> [c \in 1..Len(temperature[1]) |->
        IF arctic_mask[r][c] THEN ToFloat(temperature[r][c]) ELSE Float(100000)]]

\* one run of the script with the widgets at these values
IceExpansionSimulation(initial, target, grid_size, season) ==
    /\ IF TargetSliderRaises(initial)
       THEN /\ simulation' = [raised |-> "StreamlitAPIException",
                              initial_salinity |-> initial]
            /\ UNCHANGED cache_data
       ELSE LET key == <<grid_size, season>>
                \* what the call of line 88 returns: the value of the cache
                data == cache_data'[key]
                temperature_masked == MaskedTemperature(data.temperature, data.mask)
            IN  /\ target \in IceTargetSalinities(initial)
                /\ cache_data' =
                      IF CacheHit(key) THEN cache_data
                      ELSE (key :> GeneratedArrays(grid_size, season, initial))
                               @@ cache_data
                /\ simulation' =
                      [raised |-> "",
                       initial_salinity |-> initial, target_salinity |-> target,
                       grid_size |-> grid_size, season |-> season,
                       temperature |-> data.temperature,
                       salinity_data |-> data.salinity,
                       arctic_mask |-> data.mask,
                       temperature_masked |-> temperature_masked,
                       results |-> estimate_newly_frozen_area(temperature_masked,
                                       data.salinity, initial, target)]
    /\ UNCHANGED <<gridVars, storeVars, pageVars, geoVars, calcVars, field,
                   init_db_calls>>

\* the entries st.cache_data holds while the runs are explored
MaxCached == 2

\* the script is not yet run: the cache of the server process is empty
InitIce ==
    /\ cache_data = <<>>
    /\ simulation = NoResult
    /\ init_db_calls = [p \in Processes |-> NotInInitDb]
    /\ GridIdle
    /\ StoreIdle
    /\ session_state = EmptySession
    /\ page = NoPage
    /\ reachable = TRUE
    /\ geoengineering_approaches = default_approaches
    /\ area_km2 = 100000
    /\ depth_m = 10
    /\ calc_result = NoResult
    /\ field = NoResult

NextIce ==
    \E initial \in IceInitialSalinities, grid_size \in IceGridSizes, season \in Seasons :
        /\ CacheHit(<<grid_size, season>>) \/ Cardinality(DOMAIN cache_data) < MaxCached
        /\ \E target \in IceTargetSalinities(IF TargetSliderRaises(initial) THEN 320 ELSE initial) :
              IceExpansionSimulation(initial, target, grid_size, season)

SpecIce == InitIce /\ [][NextIce]_vars

(***************************************************************************)
(* Claims about estimate_newly_frozen_area (checked under SpecGrid)        *)
(***************************************************************************)
Called == frozen_result # NoResult

\* the cell's temperature is a number below x (1e-4 degrees C)
Below(c, x) == LET t == temperature_data[c[1]][c[2]] IN ~t.nan /\ t.v < x
\* the cell's temperature is a number at or above x
AtOrAbove(c, x) == LET t == temperature_data[c[1]][c[2]] IN ~t.nan /\ t.v >= x

InCurrently(c) == frozen_result.currently_frozen_map[c[1]][c[2]]
InNewly(c) == frozen_result.newly_frozen_map[c[1]][c[2]]
InTotal(c) == frozen_result.total_frozen_map[c[1]][c[2]]

\* C1: for every temperature grid and every pair of salinities (target >= initial
\* included) no cell is true in both currently_frozen_map and newly_frozen_map.
C1_MutuallyExclusive ==
    Called => \A c \in Cells(frozen_result.currently_frozen_map) :
                  ~(InCurrently(c) /\ InNewly(c))

\* one result that holds a currently frozen cell and a newly frozen cell
C1_Witness ==
    /\ Called
    /\ \E c \in Cells(temperature_data) : InCurrently(c)
    /\ \E c \in Cells(temperature_data) : InNewly(c)

\* C2: total_frozen_map[c] is true exactly when currently_frozen_map[c] or
\* newly_frozen_map[c] is, and the three maps have the temperature grid's shape.
C2_TotalIsUnion ==
    Called =>
        /\ Shape(frozen_result.currently_frozen_map) = Shape(temperature_data)
        /\ Shape(frozen_result.newly_frozen_map) = Shape(temperature_data)
        /\ Shape(frozen_result.total_frozen_map) = Shape(temperature_data)
        /\ \A c \in Cells(temperature_data) :
               InTotal(c) <=> (InCurrently(c) \/ InNewly(c))

\* a two-row result with a cell in the total map through each of the two maps
C2_Witness ==
    /\ Called
    /\ Len(temperature_data) = 2
    /\ \E c \in Cells(temperature_data) : InTotal(c) /\ InCurrently(c)
    /\ \E c \in Cells(temperature_data) : InTotal(c) /\ InNewly(c)
    /\ \E c \in Cells(temperature_data) : ~InTotal(c)

\* C3: a cell is currently frozen iff temperature < fp(initial), newly frozen iff
\* fp(initial) <= temperature < fp(target), with fp(S) = -0.054*S; hence for
\* target < initial it is in total_frozen_map iff temperature < fp(target).
C3_Classification ==
    Called =>
        \A c \in Cells(temperature_data) :
            /\ InCurrently(c) <=> Below(c, -54 * initial_salinity)
            /\ InNewly(c) <=> (AtOrAbove(c, -54 * initial_salinity)
                                /\ Below(c, -54 * target_salinity))
            /\ target_salinity < initial_salinity =>
                   (InTotal(c) <=> Below(c, -54 * target_salinity))

\* target < initial, with a cell exactly on fp(initial) (newly frozen) and a
\* cell exactly on fp(target) (not frozen)
C3_Witness ==
    /\ Called
    /\ target_salinity < initial_salinity
    /\ \E c \in Cells(temperature_data) :
           temperature_data[c[1]][c[2]] = Float(-54 * initial_salinity) /\ InNewly(c)
    /\ \E c \in Cells(temperature_data) :
           temperature_data[c[1]][c[2]] = Float(-54 * target_salinity) /\ ~InTotal(c)

\* C4: when target_salinity >= initial_salinity the call returns (no error)
\* newly_frozen_area = 0 and total_frozen_map = currently_frozen_map.
C4_DegenerateTarget ==
    (Called /\ target_salinity >= initial_salinity) =>
        /\ frozen_result.newly_frozen_area = 0
        /\ frozen_result.total_frozen_map = frozen_result.currently_frozen_map

\* target > initial and a cell inside the inverted interval
\* [fp(target), fp(initial))
C4_Witness ==
    /\ Called
    /\ target_salinity > initial_salinity
    /\ \E c \in Cells(temperature_data) :
           AtOrAbove(c, -54 * target_salinity) /\ Below(c, -54 * initial_salinity)

\* the true cells of a boolean map, counted cell by cell
TrueCells(m) == {c \in Cells(temperature_data) : m[c[1]][c[2]]}

\* C5: each area is the number of true cells of its map (one cell = 1 km2), so
\* currently + newly = total and total <= number of grid cells.
C5_AreasCountCells ==
    Called =>
        /\ frozen_result.currently_frozen_area
               = Cardinality(TrueCells(frozen_result.currently_frozen_map))
        /\ frozen_result.newly_frozen_area
               = Cardinality(TrueCells(frozen_result.newly_frozen_map))
        /\ frozen_result.total_frozen_area
               = Cardinality(TrueCells(frozen_result.total_frozen_map))
        /\ frozen_result.currently_frozen_area + frozen_result.newly_frozen_area
               = frozen_result.total_frozen_area
        /\ frozen_result.total_frozen_area
               <= Len(temperature_data) * Len(temperature_data[1])

\* a result with both areas positive and some cell not frozen
C5_Witness ==
    /\ Called
    /\ frozen_result.currently_frozen_area >= 1
    /\ frozen_result.newly_frozen_area >= 1
    /\ frozen_result.total_frozen_area < Len(temperature_data) * Len(temperature_data[1])

(***************************************************************************)
(* Claims about the store                                                  *)
(***************************************************************************)
ReturnedValue(op, val) == ret[1] = op /\ ret[2] = "return" /\ ret[3] = <<val>>

\* the nine input fields of a scenario dict
InputFieldsOf(d) == [c \in ScenarioInputFields |-> d[c]]

StoredIds == Ids(simulation_scenarios)

\* this step is an update_scenario or a delete_scenario applied to id i
UpdateOrDeleteOn(i) ==
    \/ \E kwargs \in UpdateKwargs : update_scenario(i, kwargs)
    \/ delete_scenario(i)

\* save_scenario(a) returned an id and get_scenario(id) has a's nine fields
C6_SaveStep ==
    \A a \in ScenarioInputs, new_id \in 1..MaxRows :
        (ReturnedValue("save_scenario", new_id)' /\ save_scenario(a)) =>
            /\ get_scenario(new_id)' # NotFound
            /\ InputFieldsOf(get_scenario(new_id)') = a

\* a step that is no update or delete of a stored id leaves its nine fields
C6_KeepStep ==
    \A i \in 1..MaxRows :
        (i \in StoredIds /\ ~UpdateOrDeleteOn(i)) =>
            /\ get_scenario(i)' # NotFound
            /\ InputFieldsOf(get_scenario(i)') = InputFieldsOf(get_scenario(i))

\* C6: after save_scenario(...) returns id, get_scenario(id) returns a record whose
\* nine input fields are the values passed, and this stays so for as long as no
\* update_scenario or delete_scenario is applied to that id, whatever other store
\* operations happen in between.
C6_SaveThenGet == [][C6_SaveStep /\ C6_KeepStep]_vars

\* a saved scenario holds its input fields after a result was saved and an
\* update_scenario of another id was refused
C6_Witness ==
    /\ simulation_results # {}
    /\ \E r \in simulation_scenarios : InputFieldsOf(r) \in ScenarioInputs
    /\ ReturnedValue("update_scenario", FALSE)

\* the ids get_scenarios() lists, whatever the order
ListedIds(favorite_only) ==
    UNION {{list[k].id : k \in DOMAIN list} : list \in get_scenarios(favorite_only)}

C7_DeleteStep ==
    \A i \in ScenarioIdArgs :
        delete_scenario(i) =>
            IF i \in StoredIds
            THEN /\ ReturnedValue("delete_scenario", TRUE)'
                 /\ get_scenario(i)' = NotFound
                 /\ i \notin ListedIds(FALSE)'
            ELSE /\ ReturnedValue("delete_scenario", FALSE)'
                 /\ simulation_scenarios' = simulation_scenarios
                 /\ \A j \in StoredIds : get_scenario(j)' = get_scenario(j)

\* C7: delete_scenario(id) on a stored id returns True and afterwards
\* get_scenario(id) is None and get_scenarios() no longer lists the id; on an id
\* that is not stored it returns False and leaves every stored scenario unchanged.
C7_Delete == [][C7_DeleteStep]_vars

\* a delete returned True while another scenario stays stored
C7_Witness ==
    /\ ReturnedValue("delete_scenario", TRUE)
    /\ Cardinality(simulation_scenarios) = 1

\* update_scenario(i, kwargs) as C8 states it
C8_UpdateStep ==
    \A i \in ScenarioIdArgs, kwargs \in UpdateKwargs :
        update_scenario(i, kwargs) =>
            IF i \in StoredIds
            THEN /\ ReturnedValue("update_scenario", TRUE)'
                 /\ get_scenario(i)' # NotFound
                 /\ \A c \in ScenarioColumns :
                        IF c \in DOMAIN kwargs
                        THEN get_scenario(i)'[c] = kwargs[c]
                        ELSE c # "modified_at" => get_scenario(i)'[c] = get_scenario(i)[c]
                 /\ \A j \in ScenarioIdArgs \ {i} : get_scenario(j)' = get_scenario(j)
            ELSE /\ ReturnedValue("update_scenario", FALSE)'
                 /\ simulation_scenarios' = simulation_scenarios
                 /\ simulation_results' = simulation_results

\* C8: update_scenario(id, fields) on a stored id returns True and get_scenario(id)
\* then shows each passed field with its new value and every other field (but
\* modified_at) with its old value, no other scenario changed; on an id that is
\* not stored it returns False and changes nothing.
C8_Update == [][C8_UpdateStep]_vars

\* the keyword arguments that name neither id nor modified_at
PlainKwargs == {kwargs \in UpdateKwargs : DOMAIN kwargs \cap {"id", "modified_at"} = {}}

\* C8 for keyword arguments other than id and modified_at: it holds
C8_PlainUpdateStep ==
    \A i \in ScenarioIdArgs, kwargs \in PlainKwargs :
        update_scenario(i, kwargs) =>
            IF i \in StoredIds
            THEN /\ ReturnedValue("update_scenario", TRUE)'
                 /\ get_scenario(i)' # NotFound
                 /\ \A c \in ScenarioColumns :
                        IF c \in DOMAIN kwargs
                        THEN get_scenario(i)'[c] = kwargs[c]
                        ELSE c # "modified_at" => get_scenario(i)'[c] = get_scenario(i)[c]
                 /\ get_scenario(i)'.modified_at = now
                 /\ \A j \in ScenarioIdArgs \ {i} : get_scenario(j)' = get_scenario(j)
            ELSE /\ ReturnedValue("update_scenario", FALSE)'
                 /\ simulation_scenarios' = simulation_scenarios
                 /\ simulation_results' = simulation_results

C8_PlainUpdate == [][C8_PlainUpdateStep]_vars

\* the dicts of a list, as a set
Entries(list) == {list[k] : k \in DOMAIN list}

\* every list get_scenarios may return holds each of the rows once
ListsExactly(favorite_only, rows) ==
    \A list \in get_scenarios(favorite_only) :
        /\ Len(list) = Cardinality(rows)
        /\ Entries(list) = {ScenarioDict(r) : r \in rows}

C9_Listing ==
    /\ get_scenarios(FALSE) # {}
    /\ get_scenarios(TRUE) # {}
    /\ ListsExactly(FALSE, simulation_scenarios)
    /\ ListsExactly(TRUE, {r \in simulation_scenarios : r.is_favorite})

\* is_favorite as last set: by save_scenario, or by an update_scenario that
\* passes it
C9_LastSetStep ==
    /\ \A a \in ScenarioInputs, new_id \in 1..MaxRows :
           (ReturnedValue("save_scenario", new_id)' /\ save_scenario(a)) =>
               (new_id \in ListedIds(TRUE)' <=> a.is_favorite)
    /\ \A i \in ScenarioIdArgs, kwargs \in UpdateKwargs :
           (/\ "is_favorite" \in DOMAIN kwargs
            /\ ReturnedValue("update_scenario", TRUE)'
            /\ update_scenario(i, kwargs)) =>
               (i \in ListedIds(TRUE)' <=> kwargs.is_favorite)

\* C9: in every store state get_scenarios() returns exactly one entry for each
\* stored scenario, and get_scenarios(favorite_only=True) exactly the stored
\* scenarios whose is_favorite is true, as last set by save_scenario or
\* update_scenario.
C9_GetScenarios == []C9_Listing /\ [][C9_LastSetStep]_vars

\* two scenarios stored, one of them a favorite since an update_scenario
C9_Witness ==
    /\ Cardinality(simulation_scenarios) = 2
    /\ Cardinality(ListedIds(TRUE)) = 1
    /\ ReturnedValue("update_scenario", TRUE)
    /\ \E r \in simulation_scenarios : r.is_favorite /\ r.name = "Baseline"

\* the records C10 calls matching: those of the scenario_id given, all with none
Matching(scenario_id) ==
    IF scenario_id = Null THEN simulation_results
    ELSE {r \in simulation_results : r.scenario_id = scenario_id[1]}

\* what C10 says of one list get_results(scenario_id, limit) returns
MostRecentFirst(list, scenario_id, limit) ==
    /\ Len(list) <= limit
    /\ \A i, j \in DOMAIN list : i < j => list[i].run_at >= list[j].run_at
    /\ \A i, j \in DOMAIN list : list[i].id = list[j].id => i = j
    /\ scenario_id # Null => \A k \in DOMAIN list : list[k].scenario_id = scenario_id[1]
    /\ \A k \in DOMAIN list : \E r \in Matching(scenario_id) : ResultDict(r) = list[k]
    /\ Len(list) = IF limit < Cardinality(Matching(scenario_id))
                   THEN limit ELSE Cardinality(Matching(scenario_id))
    /\ \A r \in Matching(scenario_id) :
           (\A k \in DOMAIN list : list[k].id # r.id) =>
               \A k \in DOMAIN list : list[k].run_at >= r.run_at

\* C10: get_results(scenario_id, limit) returns at most limit records, most recent
\* first, the most recent ones among the matching records: those of the
\* scenario_id when one is given, those of all scenarios when none is.
C10_GetResults ==
    \A scenario_id \in ResultQueryIds, limit \in Limits :
        /\ get_results(scenario_id, limit) # {}
        /\ \A list \in get_results(scenario_id, limit) :
               MostRecentFirst(list, scenario_id, limit)

\* C10 for a scenario_id that is None or not 0: it holds
C10_GetResultsNonZero ==
    \A scenario_id \in ResultQueryIds \ {Some(0)}, limit \in Limits :
        /\ get_results(scenario_id, limit) # {}
        /\ \A list \in get_results(scenario_id, limit) :
               MostRecentFirst(list, scenario_id, limit)

(***************************************************************************)
(* Claims about the pages and the store (SpecPages, Spec)                  *)
(***************************************************************************)
\* the run records a step adds, and the scenarios it adds
AddedResults == simulation_results' \ simulation_results
AddedScenarioIds == Ids(simulation_scenarios') \ Ids(simulation_scenarios)

ExactlyOneResultFor(k) ==
    /\ Cardinality(AddedResults) = 1
    /\ \A r \in AddedResults : r.scenario_id = k

C11_EverySaveStep ==
    \A k \in AddedScenarioIds : ExactlyOneResultFor(k)

\* C11: every save action of a page that stores a scenario (the button "Save
\* Results to Database" of the Freshwater Calculator, the form "Save Scenario"
\* of Saved Simulations) creates exactly one run record, and that record
\* references the scenario just stored.
C11_OneResultPerSave == [][C11_EverySaveStep]_vars

C11_SessionSaveStep ==
    \A k \in AddedScenarioIds :
        IF page'.script = "05_Saved_Simulations"
           /\ session_state.freshwater_volume_km3 = Null
        THEN AddedResults = {}
        ELSE ExactlyOneResultFor(k)

\* C11, amended: the calculator's button creates exactly one run record
\* referencing the scenario it stored; the form of Saved Simulations creates
\* exactly one when the session holds freshwater_volume_km3 (a Freshwater
\* Calculator run came before in this session) and none when it does not.  No
\* save removes or changes a stored run record.
C11_OneResultPerSaveWithResults ==
    [][C11_SessionSaveStep /\ simulation_results \subseteq simulation_results']_vars

\* the form has stored a scenario in a session without results: no run record
\* references it
C11_Witness ==
    /\ page.script = "05_Saved_Simulations"
    /\ page.scenario_id # Null
    /\ page.result_id = Null
    /\ session_state = EmptySession
    /\ \E r \in simulation_scenarios : page.scenario_id = Some(r.id)
    /\ \A r \in simulation_results : page.scenario_id # Some(r.scenario_id)

C12_DeleteStep ==
    \A i \in ScenarioIdArgs :
        (ReturnedValue("delete_scenario", TRUE)' /\ delete_scenario(i)) =>
            \A r \in simulation_results' : r.scenario_id # i

C12_KeepStep ==
    \A r \in simulation_results \ simulation_results' :
        \E i \in ScenarioIdArgs : delete_scenario(i) /\ r.scenario_id = i

\* C12: deleting a scenario deletes every run record that references it (after
\* a successful delete_scenario(i) no run record has scenario_id i), and no
\* other operation removes a run record.
C12_CascadingDelete == [][C12_DeleteStep /\ C12_KeepStep]_vars

\* what a call that failed with ShapeMismatch would leave: no dict, the error
ShapeMismatch == [returned |-> FALSE, error |-> "ShapeMismatch"]

\* C14: a call of estimate_newly_frozen_area with a temperature grid and a
\* salinity grid of different shapes fails with ShapeMismatch and returns no
\* frozen-area result.
C14_ShapeMismatch ==
    (Called /\ Shape(temperature_data) # Shape(salinity_data)) =>
        frozen_result = ShapeMismatch

C15_FallbackStep ==
    (GeoengineeringApproaches /\ ~reachable) =>
        page'.chart = Some(get_geoengineering_comparison_data)

\* C15: when the database does not answer, the geoengineering comparison is
\* drawn from the static data of the six approaches instead of failing.
C15_StaticFallback == [][C15_FallbackStep]_vars

C13_GuardStep ==
    \A initial \in PageSalinities, target \in PageSalinities, area \in PageAreas,
       depth \in PageDepths, save_button \in BOOLEAN :
        FreshwaterCalculator(initial, target, area, depth, save_button) =>
            /\ page'.calculated => target < initial
            /\ initial <= target =>
                  /\ page'.message = "Target salinity must be lower"
                  /\ ~page'.calculated
                  /\ session_state' = session_state
                  /\ simulation_scenarios' = simulation_scenarios
                  /\ simulation_results' = simulation_results

\* C13: a run of the Freshwater Calculator calls calculate_freshwater_required
\* only with target_salinity < initial_salinity; with initial_salinity <=
\* target_salinity it shows the validation error, computes no result (the
\* session keeps its values) and saves no scenario and no result.
C13_ValidatedByCaller == [][C13_GuardStep]_vars

\* the calculator has shown the validation error in a session that had saved a
\* scenario before: nothing was added
C13_Witness ==
    /\ page.script = "02_Freshwater_Calculator"
    /\ page.message = "Target salinity must be lower"
    /\ ~page.calculated
    /\ session_state.plants_needed # Null
    /\ Cardinality(simulation_scenarios) = 1
    /\ Cardinality(simulation_results) = 1

(***************************************************************************)
(* Claims about the scalar functions (SpecCalc)                            *)
(***************************************************************************)
\* the call of function f has returned
HasReturned(f) ==
    /\ calc_result # NoResult
    /\ calc_result.function = f
    /\ "value" \in DOMAIN calc_result

DecLt(a, b) == Positive(Sub(b, a))
DecLe(a, b) == a = b \/ DecLt(a, b)

\* the factors an area or a depth is multiplied by
ScaleFactors == {2, 3, 10}

\* freshwater_volume_km3 of a call with the state's salinities
FreshwaterVolumeKm3(area, depth) ==
    calculate_freshwater_required(Tenths(initial_salinity), Tenths(target_salinity),
                                  Num(area), Num(depth)).freshwater_volume_km3

\* C16: for A, D > 0 and 0 < S2 < S1 the returned freshwater_volume_km3 is
\* positive, equals A*D*(S1/S2 - 1)/1000, and is multiplied by k when A, or
\* D, is multiplied by k.
C16_FreshwaterVolume ==
    (HasReturned("calculate_freshwater_required")
     /\ 0 < target_salinity /\ target_salinity < initial_salinity) =>
        LET v == calc_result.value.freshwater_volume_km3 IN
        /\ Positive(v)
        /\ v = Div(Mul(Mul(Num(area_km2), Num(depth_m)),
                       Sub(Div(Tenths(initial_salinity), Tenths(target_salinity)),
                           Num(1))),
                   Num(1000))
        /\ \A k \in ScaleFactors :
              /\ FreshwaterVolumeKm3(k * area_km2, depth_m) = Mul(Num(k), v)
              /\ FreshwaterVolumeKm3(area_km2, k * depth_m) = Mul(Num(k), v)

\* the call returned for the whole Arctic Ocean, 50 m deep, from 35.0 to 28.0 PSU
C16_Witness ==
    /\ HasReturned("calculate_freshwater_required")
    /\ initial_salinity = 350 /\ target_salinity = 280
    /\ area_km2 = 14000000 /\ depth_m = 50
    /\ calc_result.value.freshwater_volume_km3 = Num(175000)

\* a positive number rounded to three significant digits: m * 10^e, 100 <= m <= 999
RECURSIVE Round3(_, _, _)
Round3(n, d, e) ==
    IF n < 100 * d THEN Round3(n * 10, d, e - 1)
    ELSE IF n >= 1000 * d THEN Round3(n, d * 10, e + 1)
    ELSE LET m == (2 * n + d) \div (2 * d)
         IN  IF m = 1000 THEN [m |-> 100, e |-> e + 1] ELSE [m |-> m, e |-> e]

ThreeDigits(x) == Round3(x.n, x.d, x.e)

\* C17: for the reduction from 32 to 30 PSU and the area and depth of each
\* example of get_salinity_reduction_examples, the returned
\* freshwater_volume_km3 equals the example's freshwater_km3 to three
\* significant digits (6.67 km3 for 100000 km2 and 10 m).
C17_ReferenceExamples ==
    (HasReturned("calculate_freshwater_required")
     /\ initial_salinity = 320 /\ target_salinity = 300) =>
        \A x \in get_salinity_reduction_examples :
            (area_km2 = x.area_km2 /\ depth_m = x.depth_m) =>
                ThreeDigits(calc_result.value.freshwater_volume_km3) =
                    ThreeDigits(x.freshwater_km3)

\* C18: calculate_freezing_point(S) is -0.054*S (here -54*S, in 1e-4 degrees
\* for S in tenths of a PSU): 0 at S = 0, -1.89 at S = 35, and for
\* target_salinity < initial_salinity the target freezing point is strictly
\* higher than the initial one.
C18_FreezingPoint ==
    HasReturned("calculate_freezing_point") =>
        LET fi == calc_result.value.initial
            ft == calc_result.value.target
        IN  /\ ~fi.nan /\ ~ft.nan
            /\ fi.v = -54 * initial_salinity
            /\ ft.v = -54 * target_salinity
            /\ initial_salinity = 0 => fi.v = 0
            /\ initial_salinity = 350 => fi.v = -18900
            /\ target_salinity < initial_salinity => ft.v > fi.v
            /\ target_salinity < initial_salinity => float_lt(fi, ft)

\* the freezing points of 35.0 and 0.0 PSU have been computed
C18_Witness ==
    /\ HasReturned("calculate_freezing_point")
    /\ initial_salinity = 350 /\ target_salinity = 0
    /\ calc_result.value.initial = Float(-18900)
    /\ calc_result.value.target = Float(0)

DesalinationOutputs ==
    {"plants_needed", "energy_twh_total", "tanker_trips", "plant_cost_billion",
     "operational_cost_billion"}

\* C19: every output of calculate_desalination_metrics is the volume times a
\* fixed coefficient (the output for 1 km3), 0 at volume 0; plants_needed is
\* volume / 0.365 (between 182.7 and 182.8 for 66.7 km3); and for the volume
\* calculate_freshwater_required returns, energy_twh_total is the energy_twh
\* of that call.
C19_DesalinationMetrics ==
    HasReturned("calculate_desalination_metrics") =>
        LET v == calc_result.freshwater_volume_km3
            m == calc_result.value
        IN  /\ \A o \in DesalinationOutputs :
                  /\ m[o] = Mul(v, calculate_desalination_metrics(Num(1))[o])
                  /\ v = Num(0) => m[o] = Num(0)
            /\ m.plants_needed = Div(v, Norm(365, 1, -3))
            /\ v = Norm(667, 1, -1) =>
                  /\ DecLe(Norm(1827, 1, -1), m.plants_needed)
                  /\ DecLt(m.plants_needed, Norm(1828, 1, -1))
            /\ target_salinity > 0 =>
                  LET dilution == calculate_freshwater_required(
                                      Tenths(initial_salinity), Tenths(target_salinity),
                                      Num(area_km2), Num(depth_m))
                  IN  v = dilution.freshwater_volume_km3 =>
                          m.energy_twh_total = dilution.energy_twh

\* the metrics of the volume that calculate_freshwater_required gives for
\* 32.0 -> 30.0 PSU over 1000000 km2 and 10 m (666.67 km3)
C19_Witness ==
    /\ HasReturned("calculate_desalination_metrics")
    /\ initial_salinity = 320 /\ target_salinity = 300
    /\ area_km2 = 1000000 /\ depth_m = 10
    /\ calc_result.freshwater_volume_km3 = FreshwaterVolumeKm3(area_km2, depth_m)
    /\ Positive(calc_result.value.energy_twh_total)

(***************************************************************************)
(* Claims about the synthetic field generators (SpecField)                 *)
(***************************************************************************)
Exactly(x) == [n |-> x, d |-> 1, k |-> 0]

\* the cell of the call lies outside the normalized circle
OutsideCircle == ~InsideCircle(field.grid_size, field.i, field.j)

\* 5 + 5*(nd - 1) at the cell of the call, which is 5*nd
OutsideTemperature ==
    Eval(Lin(0, 5), SquaredDistance(field.grid_size, field.i, field.j),
         field.grid_size \div 2)

C20_Cell ==
    /\ (/\ field.grid_size = 100 /\ field.season = "Winter"
        /\ field.base_salinity = 320
        /\ field.i = 50 /\ field.j = 50) => field.temperature = Exactly(-15)
    /\ OutsideCircle =>
          /\ field.temperature = OutsideTemperature
          /\ field.salinity = Exactly(field.base_salinity)

\* C20: for grid size 100, Winter and base salinity 32 the centre cell has
\* temperature -15; for every grid size a cell outside the normalized circle
\* has temperature 5 + 5*(nd - 1) and a salinity exactly equal to the base
\* salinity used inside the circle.  Stated of both generators of the
\* repository.
C20_GeneratedField == field.called => C20_Cell

\* C20, of generate_arctic_data alone (the generator the Ice Expansion
\* Simulation page runs): the same statement.
C20_PageGeneratedField ==
    (field.called /\ field.generator = "generate_arctic_data") => C20_Cell

\* 4 * ((i - center)^2 + (j - center)^2) <= grid_size^2: the cell is at most
\* grid_size/2 away from the centre (grid_size // 2 on each axis)
WithinHalfGridSize(grid_size, i, j) ==
    4 * SquaredDistance(grid_size, i, j) <= grid_size * grid_size

\* C21: for every grid size (even or odd) the generator returns temperature,
\* salinity and mask arrays that are all grid_size x grid_size, and mask[i][j]
\* is true exactly for the cells whose Euclidean distance from the grid centre
\* of the temperature/salinity field (index grid_size // 2 on each axis) is at
\* most grid_size/2.
C21_MaskIsCentredDisc ==
    field.called =>
        /\ field.temperature_shape = <<field.grid_size, field.grid_size>>
        /\ field.salinity_shape = <<field.grid_size, field.grid_size>>
        /\ field.mask_shape = <<field.grid_size, field.grid_size>>
        /\ field.mask <=> WithinHalfGridSize(field.grid_size, field.i, field.j)

\* C21, of the even grid sizes alone: the same statement.
C21_EvenGridSizes ==
    (field.called /\ field.grid_size % 2 = 0) =>
        /\ field.temperature_shape = <<field.grid_size, field.grid_size>>
        /\ field.salinity_shape = <<field.grid_size, field.grid_size>>
        /\ field.mask_shape = <<field.grid_size, field.grid_size>>
        /\ field.mask <=> WithinHalfGridSize(field.grid_size, field.i, field.j)

(***************************************************************************)
(* Claims about the Ice Expansion Simulation page (SpecIce)                *)
(***************************************************************************)
\* the last run of the script got as far as the simulation
Simulated == simulation # NoResult /\ simulation.raised = ""

\* C22: field generation with caching is a pure memoization: after any sequence
\* of changes of initial salinity, grid size and season on the Ice Expansion
\* page, the temperature, salinity and mask arrays returned by the cached
\* generate_arctic_data equal those an uncached computation produces for the
\* current grid size, season and initial (base) salinity.
C22_PureMemoization ==
    Simulated =>
        LET uncached == GeneratedArrays(simulation.grid_size, simulation.season,
                                        simulation.initial_salinity)
        IN  /\ simulation.temperature = uncached.temperature
            /\ simulation.salinity_data = uncached.salinity
            /\ simulation.arctic_mask = uncached.mask

\* C22, of the two arrays that do not depend on the initial salinity: the
\* temperature and the mask are those of an uncached computation.
C22_TemperatureAndMask ==
    Simulated =>
        LET uncached == GeneratedArrays(simulation.grid_size, simulation.season,
                                        simulation.initial_salinity)
        IN  /\ simulation.temperature = uncached.temperature
            /\ simulation.arctic_mask = uncached.mask

\* the cells of the arrays of the last run
SimulationCells == Cells(simulation.arctic_mask)

InsideMask(c) == simulation.arctic_mask[c[1]][c[2]]

\* C30: in the Ice Expansion simulation, for every allowed parameter choice
\* (initial salinity 30..35, target salinity 28..initial-0.1, grid size 50..200
\* in steps of 10, any season), no cell outside the domain mask is true in
\* currently_frozen_map or newly_frozen_map, so the displayed areas count only
\* cells inside the mask.
C30_FrozenInsideMask ==
    Simulated =>
        /\ \A c \in SimulationCells :
              ~InsideMask(c) =>
                  /\ ~simulation.results.currently_frozen_map[c[1]][c[2]]
                  /\ ~simulation.results.newly_frozen_map[c[1]][c[2]]
        /\ simulation.results.currently_frozen_area =
              Cardinality({c \in SimulationCells :
                  InsideMask(c) /\ simulation.results.currently_frozen_map[c[1]][c[2]]})
        /\ simulation.results.newly_frozen_area =
              Cardinality({c \in SimulationCells :
                  InsideMask(c) /\ simulation.results.newly_frozen_map[c[1]][c[2]]})

\* a run with cells outside the mask, and inside it cells currently frozen,
\* newly frozen and not frozen
C30_Witness ==
    /\ Simulated
    /\ \E c \in SimulationCells : ~InsideMask(c)
    /\ simulation.results.currently_frozen_area >= 1
    /\ simulation.results.newly_frozen_area >= 1
    /\ \E c \in SimulationCells :
          InsideMask(c) /\ ~simulation.results.total_frozen_map[c[1]][c[2]]

(***************************************************************************)
(* Claims about init_db (SpecSeed, SpecRace)                               *)
(***************************************************************************)
DefaultNames ==
    {"Salinity Reduction", "Ice Thickening", "Reflective Materials",
     "Undersea Barriers", "Cloud Seeding", "Geotextiles"}

\* the rows of the table with this name
ApproachesNamed(name) == {a \in geoengineering_approaches : a.name = name}

\* the metrics of a row are on the 1-10 scale
MetricsInScale(a) ==
    \A metric \in {"effectiveness", "feasibility", "cost_efficiency",
                   "environmental_impact", "technological_readiness", "scalability"} :
        a[metric] \in 1..10

\* the table holds the six default approaches, each exactly once
SixDefaultsOnce ==
    /\ Cardinality(geoengineering_approaches) = 6
    /\ \A name \in DefaultNames : Cardinality(ApproachesNamed(name)) = 1
    /\ \A a \in geoengineering_approaches : MetricsInScale(a)

\* a step that changes the table is a step of init_db
C23_OnlyInitDbWrites ==
    geoengineering_approaches' # geoengineering_approaches =>
        \E p \in Processes : init_db(p)

\* C23: the geoengineering reference data is seeded once: after any number of
\* sequential init_db calls (the import-time call and the setup script),
\* interleaved with any scenario and result operations, the
\* geoengineering_approaches table holds exactly the six default approaches,
\* each exactly once with its six metrics in 1..10, and no scenario or result
\* operation writes to that table.
C23_SeededOnce == [](Imported => SixDefaultsOnce) /\ [][C23_OnlyInitDbWrites]_vars

\* both processes have run init_db, scenarios and results are stored
C23_Witness ==
    /\ \A p \in Processes : init_db_calls[p].pc = "done"
    /\ simulation_scenarios # {}
    /\ simulation_results # {}
    /\ SixDefaultsOnce

\* C26: if two processes run init_db concurrently against an empty store (each
\* checks the approach count, then inserts the defaults and commits), then in
\* every interleaving the geoengineering_approaches table ends with exactly
\* six approaches, none duplicated.
C26_ConcurrentInitDb ==
    (\A p \in Processes : init_db_calls[p].pc = "done") => SixDefaultsOnce

(***************************************************************************)
(* Claims about the stored results (SpecPages, Spec, SpecResults)          *)
(***************************************************************************)
\* what calculate_freshwater_required returns for the inputs of a stored scenario
CalculatedFor(scenario) ==
    calculate_freshwater_required(Tenths(scenario.initial_salinity),
        Tenths(scenario.target_salinity), Num(scenario.area_km2), Num(scenario.depth_m))

\* the run record r holds the calculation of the scenario it was stored with
ResultOfScenario(r, scenario) ==
    /\ r.freshwater_volume_km3 = CalculatedFor(scenario).freshwater_volume_km3
    /\ r.percent_global_desal = Some(CalculatedFor(scenario).percent_global_desal)

C24_SaveStep ==
    \A scenario \in simulation_scenarios' \ simulation_scenarios :
        \A r \in AddedResults :
            r.scenario_id = scenario.id => ResultOfScenario(r, scenario)

\* C24: whenever a page stores a scenario together with a result, the stored
\* result's freshwater_volume_km3 and percent_global_desal equal what
\* calculate_freshwater_required returns for that stored scenario's
\* initial_salinity, target_salinity, area_km2 and depth_m, after any sequence
\* of page visits and parameter changes.
C24_StoredResultIsCalculation == [][C24_SaveStep]_vars

\* C24, of the Freshwater Calculator's button alone: the same statement.
C24_CalculatorSave ==
    [][page'.script = "02_Freshwater_Calculator" => C24_SaveStep]_vars

\* a run of tab 1 with the listing not empty and a scenario selected shows the
\* detail block of that scenario
C25_DetailStep ==
    \A selected \in ScenarioIdArgs, button \in DetailButtons :
        (/\ reachable
         /\ selected \in StoredIds
         /\ SavedScenarios(selected, button)) => page'.message = "Scenario"

\* C25: on the Saved Simulations page, when get_scenarios succeeds with at
\* least one scenario and the user selects one, the page reaches the
\* scenario-detail block for that scenario, so that Load Parameters, Delete
\* (delete_scenario) and Favorite (update_scenario) can be performed on it and
\* its previous results (get_results) are shown.
C25_DetailBlockReached == [][C25_DetailStep]_vars

\* no run of the page changes or deletes a stored scenario
C25_NoDetailEver ==
    [][page'.script = "05_Saved_Simulations" =>
          /\ page'.message # "Scenario"
          /\ simulation_scenarios \subseteq simulation_scenarios']_vars

\* update_scenario(i, kwargs) as C27 states it
C27_UpdateStep ==
    \A i \in ScenarioIdArgs, kwargs \in UpdateKwargs :
        update_scenario(i, kwargs) =>
            /\ Ids(simulation_scenarios') = Ids(simulation_scenarios)
            /\ DOMAIN kwargs \cap ScenarioColumns = {} =>
                   /\ simulation_scenarios' = simulation_scenarios
                   /\ simulation_results' = simulation_results

\* C27: update_scenario(id, fields) never changes the id of a stored scenario
\* nor the set of stored scenario ids, whatever keyword names are passed
\* (including 'id'), and keyword names that are not scenario columns are ignored
\* without changing any stored data.
C27_IdsAreStable == [][C27_UpdateStep]_vars

\* C27, of the keyword names that are not scenario columns alone: a row of the
\* table changes in nothing but modified_at.
C27_UnknownNamesStep ==
    \A i \in ScenarioIdArgs, kwargs \in UpdateKwargs :
        (DOMAIN kwargs \cap ScenarioColumns = {} /\ update_scenario(i, kwargs)) =>
            /\ Ids(simulation_scenarios') = Ids(simulation_scenarios)
            /\ \A j \in StoredIds :
                  [get_scenario(j)' EXCEPT !.modified_at = 0]
                      = [get_scenario(j) EXCEPT !.modified_at = 0]

C27_UnknownNames == [][C27_UnknownNamesStep]_vars

\* the records get_results() returns for the result of this id
ReturnedRecords(result_id) ==
    UNION {{list[k] : k \in {n \in DOMAIN list : list[n].id = result_id}} :
              list \in get_results(Null, DefaultLimit)}

C28_RoundTripStep ==
    \A i \in ResultScenarioIds, a \in PayloadInputs, new_id \in 1..(MaxPayloadRows + 1) :
        (ReturnedValue("save_result", new_id)' /\ save_result(i, a)) =>
            /\ ReturnedRecords(new_id)' # {}
            /\ \A record \in ReturnedRecords(new_id)' :
                  /\ record.detailed_results = a.detailed_results
                  /\ record.detailed_results = PyNone => a.detailed_results = PyNone

\* C28: the detailed_results payload round-trips through the store: for every
\* structured payload p (including an empty mapping or empty list), the record
\* that get_results returns for the result created by
\* save_result(..., detailed_results=p) has detailed_results equal to p, and it
\* is None only when no payload was given.
C28_PayloadRoundTrip == [][C28_RoundTripStep]_vars

\* C28, of the payloads that are not empty alone: the same statement.
C28_NonEmptyStep ==
    \A i \in ResultScenarioIds, a \in PayloadInputs, new_id \in 1..(MaxPayloadRows + 1) :
        (/\ ReturnedValue("save_result", new_id)'
         /\ a.detailed_results \notin {PyDict(<<>>), PyList(<<>>)}
         /\ save_result(i, a)) =>
            /\ ReturnedRecords(new_id)' # {}
            /\ \A record \in ReturnedRecords(new_id)' :
                  /\ record.detailed_results = a.detailed_results
                  /\ record.detailed_results = PyNone => a.detailed_results = PyNone

C28_NonEmptyRoundTrip == [][C28_NonEmptyStep]_vars

(***************************************************************************)
(* Claims about the arguments of estimate_newly_frozen_area (SpecGrid)     *)
(***************************************************************************)
\* other salinity grids a second call may be given: saltier or fresher fields
\* of the temperature grid's shape, a field of NaN, a single cell
OtherSalinityGrids ==
    {Uniform(Shape(temperature_data), Float(350)),
     Uniform(Shape(temperature_data), Float(0)),
     Uniform(Shape(temperature_data), NaN),
     Uniform(<<1, 1>>, Float(280))}

\* C29: the result of estimate_newly_frozen_area depends only on the
\* temperature grid and the two scalar salinities: two calls with the same
\* temperature grid, initial_salinity and target_salinity but different
\* salinity grids return identical maps and areas.
C29_SalinityGridIgnored ==
    Called =>
        \A other \in OtherSalinityGrids :
            estimate_newly_frozen_area(temperature_data, other, initial_salinity,
                                       target_salinity) = frozen_result

\* a call whose salinity grid differs from every other one, with cells of
\* each class in its result
C29_Witness ==
    /\ Called
    /\ salinity_data \notin OtherSalinityGrids
    /\ target_salinity < initial_salinity
    /\ frozen_result.currently_frozen_area >= 1
    /\ frozen_result.newly_frozen_area >= 1
    /\ frozen_result.total_frozen_area < Cardinality(Cells(temperature_data))

====
